---- MODULE Spec2Model ----
(***************************************************************************)
(* Model of the BLE HID keyboard/mouse peripheral of baremobile            *)
(* (test/ios/ble-hid-poc.py): the report characteristics' value buffers,   *)
(* the GLib main loop with its one-shot timeout sources, the interactive   *)
(* command dispatcher that drives them, the GATT attribute tree that the   *)
(* daemon introspects and the remote side writes to, and the process from  *)
(* the start of main() to its exit; and of the caption parser of the       *)
(* accessibility helper (scripts/ios-ax.py).                               *)
(*                                                                         *)
(* Text is modelled as a sequence of characters, each character a          *)
(* one-character string; a command line is modelled by its whitespace      *)
(* separated tokens (what line.strip().split() returns).  The grave       *)
(* accent, which a TLA+ string cannot hold, is written "grave".            *)
(*                                                                         *)
(* Time is the main loop's monotonic clock in milliseconds.  A timeout     *)
(* source fires when the clock reaches its ready time; the callbacks take  *)
(* no time, so the clock never passes the ready time of a pending source.  *)
(* Sources that are ready at the same instant fire in any order.           *)
(***************************************************************************)
EXTENDS Integers, Sequences, FiniteSets, TLC

VARIABLES
    kb_value,      \* hid_service.kb_report.value
    mouse_value,   \* hid_service.mouse_report.value
    timers,        \* pending GLib timeout sources
    nextId,        \* id the next attached GLib source gets
    now,           \* main loop clock, ms
    running,       \* mainloop.run() has not returned
    watching,      \* the stdin IO watch is still attached
    nreads,        \* number of times the stdin watch has run
    acts,          \* history: the actions the dispatcher has started
    log,           \* history: the PropertiesChanged signals emitted so far,
                   \* each with the notifying flag send_report printed
    stdout,        \* what the last stdin or timeout callback printed
    eof,           \* stdin has reached end of input
    value,         \* .value of the characteristics the remote side can write
    response,      \* what the last GetManagedObjects call returned
    nwrites,       \* number of WriteValue calls made by the remote side
    last_write,    \* history: the data last written, by path
    seen,          \* history: the writes and signals before GetManagedObjects
    notifying,     \* .notifying of the keyboard and the mouse report
    pc,            \* where main() is: "main", "run" (mainloop.run) or "exit"
    adapter_path,  \* what find_adapter returned
    app_reg,       \* reply to RegisterApplication
    adv_reg,       \* reply to RegisterAdvertisement
    exit_status,   \* exit status of the process, -1 while it lives
    argv,          \* sys.argv[1:], the words on the command line
    caption,       \* ios-ax.py: the caption given to parse_caption
    parsed         \* ios-ax.py: what parse_caption returned, once called

\* the attribute tree as the remote side sees it
gatt == <<value, response, nwrites, last_write, seen, notifying>>

\* the process and its registrations
proc == <<pc, adapter_path, app_reg, adv_reg, exit_status, argv>>

\* the accessibility helper, a program of its own
ax == <<caption, parsed>>

vars == <<kb_value, mouse_value, timers, nextId, now, running, watching,
          nreads, acts, log, stdout, eof, gatt, proc, ax>>

-----------------------------------------------------------------------------
(* Bounds of the model *)

MaxReads == 2          \* the stdin watch runs at most this often

-----------------------------------------------------------------------------
(* Generic helpers *)

Abs(x) == IF x < 0 THEN -x ELSE x

Max2(a, b) == IF a >= b THEN a ELSE b

Min2(a, b) == IF a <= b THEN a ELSE b

\* variant: the quotient is floored instead of rounded
RoundDiv_Floor(n, d) == n \div d

\* Python's round() on the quotient n / d (d > 0): round half to even
RoundDiv(n, d) ==
    LET q == n \div d
        r == n % d
    IN  IF 2 * r < d THEN q
        ELSE IF 2 * r > d THEN q + 1
        ELSE IF q % 2 = 0 THEN q ELSE q + 1

\* [x] * n
Repeat(x, n) == [i \in 1..n |-> x]

RECURSIVE IndexIn(_, _, _)
\* position of c in seq at or after i, 0 if absent
IndexIn(seq, c, i) ==
    IF i > Len(seq) THEN 0
    ELSE IF seq[i] = c THEN i
    ELSE IndexIn(seq, c, i + 1)

Index(seq, c) == IndexIn(seq, c, 1)

-----------------------------------------------------------------------------
(* Lookup tables *)

LowerLetters == <<"a", "b", "c", "d", "e", "f", "g", "h", "i", "j", "k", "l",
                  "m", "n", "o", "p", "q", "r", "s", "t", "u", "v", "w", "x",
                  "y", "z">>

UpperLetters == <<"A", "B", "C", "D", "E", "F", "G", "H", "I", "J", "K", "L",
                  "M", "N", "O", "P", "Q", "R", "S", "T", "U", "V", "W", "X",
                  "Y", "Z">>

DigitKeys == <<"1", "2", "3", "4", "5", "6", "7", "8", "9", "0">>

\* the punctuation entries of CHAR_TO_KEYCODE: <<character, keycode>>
PunctKeys == << <<" ", 44>>, <<"\n", 40>>, <<"\t", 43>>, <<"-", 45>>,
                <<"=", 46>>, <<"[", 47>>, <<"]", 48>>, <<"\\", 49>>,
                <<";", 51>>, <<"'", 52>>, <<"grave", 53>>, <<",", 54>>,
                <<".", 55>>, <<"/", 56>> >>

PunctChars == [i \in 1..Len(PunctKeys) |-> PunctKeys[i][1]]

\* the keys of CHAR_TO_KEYCODE
CharKeys ==
    {LowerLetters[i] : i \in 1..Len(LowerLetters)}
        \cup {DigitKeys[i] : i \in 1..Len(DigitKeys)}
        \cup {PunctChars[i] : i \in 1..Len(PunctChars)}

\* variant: the letters start one usage too high, so z lands on the 1 key
CHAR_TO_KEYCODE_LettersFrom5(c) ==
    IF Index(LowerLetters, c) > 0 THEN <<0, 5 + (Index(LowerLetters, c) - 1)>>
    ELSE IF Index(DigitKeys, c) > 0 THEN <<0, 30 + (Index(DigitKeys, c) - 1)>>
    ELSE <<0, PunctKeys[Index(PunctChars, c)][2]>>

\* CHAR_TO_KEYCODE[c], a pair <<modifier, keycode>>
CHAR_TO_KEYCODE(c) ==
    IF Index(LowerLetters, c) > 0 THEN <<0, 4 + (Index(LowerLetters, c) - 1)>>
    ELSE IF Index(DigitKeys, c) > 0 THEN <<0, 30 + (Index(DigitKeys, c) - 1)>>
    ELSE <<0, PunctKeys[Index(PunctChars, c)][2]>>

\* the non-letter entries of SHIFT_CHARS: <<shifted character, base character>>
ShiftPunct == << <<"!", "1">>, <<"@", "2">>, <<"#", "3">>, <<"$", "4">>,
                 <<"%", "5">>, <<"^", "6">>, <<"&", "7">>, <<"*", "8">>,
                 <<"(", "9">>, <<")", "0">>, <<"_", "-">>, <<"+", "=">>,
                 <<"{", "[">>, <<"}", "]">>, <<"|", "\\">>, <<":", ";">>,
                 <<"\"", "'">>, <<"~", "grave">>, <<"<", ",">>, <<">", ".">>,
                 <<"?", "/">> >>

ShiftPunctChars == [i \in 1..Len(ShiftPunct) |-> ShiftPunct[i][1]]

\* the keys of SHIFT_CHARS
ShiftKeys ==
    {UpperLetters[i] : i \in 1..Len(UpperLetters)}
        \cup {ShiftPunctChars[i] : i \in 1..Len(ShiftPunctChars)}

\* SHIFT_CHARS[c], the unshifted base character
SHIFT_CHARS(c) ==
    IF Index(UpperLetters, c) > 0 THEN LowerLetters[Index(UpperLetters, c)]
    ELSE ShiftPunct[Index(ShiftPunctChars, c)][2]

\* SPECIAL_KEYS: <<name, modifier, keycode>>
SpecialTable == <<
    << <<"e", "n", "t", "e", "r">>, 0, 40 >>,
    << <<"r", "e", "t", "u", "r", "n">>, 0, 40 >>,
    << <<"e", "s", "c", "a", "p", "e">>, 0, 41 >>,
    << <<"e", "s", "c">>, 0, 41 >>,
    << <<"b", "a", "c", "k", "s", "p", "a", "c", "e">>, 0, 42 >>,
    << <<"d", "e", "l", "e", "t", "e">>, 0, 42 >>,
    << <<"t", "a", "b">>, 0, 43 >>,
    << <<"s", "p", "a", "c", "e">>, 0, 44 >>,
    << <<"c", "a", "p", "s", "l", "o", "c", "k">>, 0, 57 >>,
    << <<"r", "i", "g", "h", "t">>, 0, 79 >>,
    << <<"l", "e", "f", "t">>, 0, 80 >>,
    << <<"d", "o", "w", "n">>, 0, 81 >>,
    << <<"u", "p">>, 0, 82 >>,
    << <<"h", "o", "m", "e">>, 0, 74 >>,
    << <<"e", "n", "d">>, 0, 77 >>,
    << <<"p", "a", "g", "e", "u", "p">>, 0, 75 >>,
    << <<"p", "a", "g", "e", "d", "o", "w", "n">>, 0, 78 >>,
    << <<"f", "1">>, 0, 58 >>,
    << <<"f", "2">>, 0, 59 >>,
    << <<"f", "3">>, 0, 60 >>,
    << <<"f", "4">>, 0, 61 >>,
    << <<"f", "5">>, 0, 62 >>,
    << <<"f", "6">>, 0, 63 >>,
    << <<"f", "7">>, 0, 64 >>,
    << <<"f", "8">>, 0, 65 >>,
    << <<"f", "9">>, 0, 66 >>,
    << <<"f", "1", "0">>, 0, 67 >>,
    << <<"f", "1", "1">>, 0, 68 >>,
    << <<"f", "1", "2">>, 0, 69 >>,
    << <<"v", "o", "+", "s", "p", "a", "c", "e">>, 57, 44 >> >>

SpecialNames == [i \in 1..Len(SpecialTable) |-> SpecialTable[i][1]]

\* SPECIAL_KEYS[name], a pair <<modifier, keycode>>
SPECIAL_KEYS(name) ==
    LET e == SpecialTable[Index(SpecialNames, name)] IN <<e[2], e[3]>>

\* str.lower() of one character
LowerChar(c) ==
    IF Index(UpperLetters, c) > 0 THEN LowerLetters[Index(UpperLetters, c)]
    ELSE c

\* str.lower()
Lower(s) == [i \in 1..Len(s) |-> LowerChar(s[i])]

-----------------------------------------------------------------------------
(* Timing constants of the input functions *)

KEY_UP_MS == 80         \* send_key / send_hid: key up after 80 ms

CLICK_UP_MS == 80       \* click: button up after 80 ms

CHAR_INTERVAL == 200    \* send_string: i * 200

STEP == 50              \* move_mouse: units per report

INTERVAL == 8           \* move_mouse: ms between reports

SCROLL_STEP == 1        \* scroll: STEP

SCROLL_INTERVAL == 50   \* scroll: INTERVAL

-----------------------------------------------------------------------------
(* What one call does: the reports it sends now, the timeout sources it    *)
(* attaches, whether it raised, and what it printed.                       *)

NoEffect == [reports |-> <<>>, sched |-> <<>>, raised |-> FALSE, out |-> <<>>,
             quit |-> FALSE]

\* the callback  lambda: chrc.send_report(data) or False
ReportCb(chrc, data) ==
    [fn |-> "send_report", chrc |-> chrc, data |-> data, char |-> <<>>]

\* the callback  lambda c=char: send_key(hid_service, c) or False
KeyCb(char) ==
    [fn |-> "send_key", chrc |-> "kb", data |-> <<>>, char |-> char]

\* GLib.timeout_add(interval, cb)
timeout_add(interval, cb) == [delay |-> interval, cb |-> cb]

\* variant: a report is stored and signalled only while the remote side is
\* subscribed
send_report_Gated(chrc, data) ==
    IF ~notifying[chrc] THEN NoEffect
    ELSE IF \A i \in 1..Len(data) : data[i] \in 0..255
    THEN [NoEffect EXCEPT !.reports = <<[chrc |-> chrc, data |-> data]>>]
    ELSE [NoEffect EXCEPT !.raised = TRUE]

\* ReportChrc.send_report(data): dbus.Byte(b) accepts 0..255 only
send_report(chrc, data) ==
    IF \A i \in 1..Len(data) : data[i] \in 0..255
    THEN [NoEffect EXCEPT !.reports = <<[chrc |-> chrc, data |-> data]>>]
    ELSE [NoEffect EXCEPT !.raised = TRUE]

\* a call followed by timeout_add calls; nothing is attached once it raised
ThenSchedule(eff, sched) ==
    IF eff.raised THEN eff ELSE [eff EXCEPT !.sched = sched]

\* variant: the keycode lands in the key2 slot
KeyReport_Key2(modifier, keycode) == <<modifier, 0, 0, keycode, 0, 0, 0, 0>>

\* [modifier, 0x00, keycode, 0, 0, 0, 0, 0]
KeyReport(modifier, keycode) == <<modifier, 0, keycode, 0, 0, 0, 0, 0>>

\* send_key(hid_service, char)
send_key(char) ==
    IF Index(SpecialNames, Lower(char)) > 0
    THEN LET mk == SPECIAL_KEYS(Lower(char))
         IN  ThenSchedule(send_report("kb", KeyReport(mk[1], mk[2])),
                 <<timeout_add(KEY_UP_MS, ReportCb("kb", Repeat(0, 8)))>>)
    ELSE IF Len(char) = 1 /\ char[1] \in ShiftKeys
    THEN LET keycode == CHAR_TO_KEYCODE(SHIFT_CHARS(char[1]))[2]
         IN  ThenSchedule(send_report("kb", KeyReport(2, keycode)),
                 <<timeout_add(KEY_UP_MS, ReportCb("kb", Repeat(0, 8)))>>)
    ELSE IF Len(char) = 1 /\ char[1] \in CharKeys
    THEN LET keycode == CHAR_TO_KEYCODE(char[1])[2]
         IN  ThenSchedule(send_report("kb", KeyReport(0, keycode)),
                 <<timeout_add(KEY_UP_MS, ReportCb("kb", Repeat(0, 8)))>>)
    ELSE [NoEffect EXCEPT !.out = <<"Unknown character">>]

\* send_hid(hid_service, modifier, keycode)
send_hid(modifier, keycode) ==
    ThenSchedule(send_report("kb", KeyReport(modifier, keycode)),
        <<timeout_add(KEY_UP_MS, ReportCb("kb", Repeat(0, 8)))>>)

\* variant: the keys follow each other faster than a key is held
send_string_Fast(text) ==
    [NoEffect EXCEPT
        !.sched = [i \in 1..Len(text) |->
                      timeout_add((i - 1) * (KEY_UP_MS - 30), KeyCb(<<text[i]>>))],
        !.out = <<"Sending chars">>]

\* variant: the delay is counted from 1, the first key waits one interval
send_string_OneBased(text) ==
    [NoEffect EXCEPT
        !.sched = [i \in 1..Len(text) |->
                      timeout_add(i * CHAR_INTERVAL, KeyCb(<<text[i]>>))],
        !.out = <<"Sending chars">>]

\* variant: characters without a keycode are dropped before scheduling
send_string_Compact(text) ==
    LET enc == SelectSeq(text, LAMBDA c : c \in ShiftKeys \cup CharKeys)
    IN  [NoEffect EXCEPT
            !.sched = [i \in 1..Len(enc) |->
                          timeout_add((i - 1) * CHAR_INTERVAL,
                              KeyCb(<<enc[i]>>))],
            !.out = <<"Sending chars">>]

\* send_string(hid_service, text)
send_string(text) ==
    [NoEffect EXCEPT
        !.sched = [i \in 1..Len(text) |->
                      timeout_add((i - 1) * CHAR_INTERVAL, KeyCb(<<text[i]>>))],
        !.out = <<"Sending chars">>]

\* variant: the fallback to one step is missing
MoveSteps_NoFallback(dx, dy) ==
    Max2(Max2(Abs(dx), Abs(dy)), 1) \div STEP

\* steps = max(abs(dx), abs(dy), 1) // STEP or 1
MoveSteps(dx, dy) ==
    LET q == Max2(Max2(Abs(dx), Abs(dy)), 1) \div STEP
    IN  IF q = 0 THEN 1 ELSE q

\* max(-127, min(127, int(round(d / steps))))
MoveStep(d, steps) == Max2(-127, Min2(127, RoundDiv(d, steps)))

\* variant: the final zero report is not scheduled
move_mouse_NoStop(dx, dy) ==
    LET steps == MoveSteps(dx, dy)
        step_dx == MoveStep(dx, steps)
        step_dy == MoveStep(dy, steps)
    IN  [NoEffect EXCEPT
            !.sched = [i \in 1..steps |->
                          timeout_add((i - 1) * INTERVAL,
                              ReportCb("mouse",
                                  <<0, step_dx % 256, step_dy % 256, 0>>))]]

\* move_mouse(hid_service, dx, dy)
move_mouse(dx, dy) ==
    LET steps == MoveSteps(dx, dy)
        step_dx == MoveStep(dx, steps)
        step_dy == MoveStep(dy, steps)
    IN  [NoEffect EXCEPT
            !.sched = [i \in 1..steps |->
                          timeout_add((i - 1) * INTERVAL,
                              ReportCb("mouse",
                                  <<0, step_dx % 256, step_dy % 256, 0>>))]
                      \o <<timeout_add(steps * INTERVAL,
                              ReportCb("mouse", <<0, 0, 0, 0>>))>>]

\* variant: the button-up report is scheduled without the settle delay
click_NoSettle ==
    ThenSchedule(send_report("mouse", <<1, 0, 0, 0>>),
        <<timeout_add(0, ReportCb("mouse", <<0, 0, 0, 0>>))>>)

\* click(hid_service)
click ==
    ThenSchedule(send_report("mouse", <<1, 0, 0, 0>>),
        <<timeout_add(CLICK_UP_MS, ReportCb("mouse", <<0, 0, 0, 0>>))>>)

\* variant: the whole amount is used as the wheel value of a step
ScrollDirection_Amount(amount) == amount

\* variant: the sign test is inverted
ScrollDirection_Flip(amount) == IF amount < 0 THEN 1 ELSE -1

\* direction = 1 if amount > 0 else -1
ScrollDirection(amount) == IF amount > 0 THEN 1 ELSE -1

\* scroll(hid_service, amount)
scroll(amount) ==
    LET steps == Abs(amount)
        val == ScrollDirection(amount) * SCROLL_STEP
    IN  [NoEffect EXCEPT
            !.sched = [i \in 1..steps |->
                          timeout_add((i - 1) * SCROLL_INTERVAL,
                              ReportCb("mouse", <<0, 0, 0, val % 256>>))]
                      \o <<timeout_add(steps * SCROLL_INTERVAL,
                              ReportCb("mouse", <<0, 0, 0, 0>>))>>]

-----------------------------------------------------------------------------
(* int() on a token *)

DecDigits == <<"0", "1", "2", "3", "4", "5", "6", "7", "8", "9">>

HexDigits == <<"0", "1", "2", "3", "4", "5", "6", "7", "8", "9",
               "a", "b", "c", "d", "e", "f">>

\* value of one digit in the given base, -1 if it is not a digit of the base
DigitVal(c, base) ==
    LET k == IF base = 16 THEN Index(HexDigits, LowerChar(c))
             ELSE Index(DecDigits, c)
    IN  k - 1

AllDigits(s, base) ==
    Len(s) > 0 /\ \A i \in 1..Len(s) : DigitVal(s[i], base) >= 0

RECURSIVE DigitsVal(_, _)
DigitsVal(s, base) ==
    IF s = <<>> THEN 0
    ELSE DigitsVal(SubSeq(s, 1, Len(s) - 1), base) * base
             + DigitVal(s[Len(s)], base)

HasSign(s) == Len(s) > 0 /\ s[1] \in {"+", "-"}

Unsigned(s) == IF HasSign(s) THEN Tail(s) ELSE s

Signed(s, n) == IF HasSign(s) /\ s[1] = "-" THEN -n ELSE n

ValueError == [ok |-> FALSE, val |-> 0]

\* int(s): an optional sign and decimal digits
ParseInt(s) ==
    IF AllDigits(Unsigned(s), 10)
    THEN [ok |-> TRUE, val |-> Signed(s, DigitsVal(Unsigned(s), 10))]
    ELSE ValueError

\* int(s, 0): a decimal literal without leading zeros, or 0x and hex digits
ParseInt0(s) ==
    LET u == Unsigned(s)
    IN  IF Len(u) > 2 /\ u[1] = "0" /\ u[2] \in {"x", "X"}
        THEN IF AllDigits(SubSeq(u, 3, Len(u)), 16)
             THEN [ok |-> TRUE,
                   val |-> Signed(s, DigitsVal(SubSeq(u, 3, Len(u)), 16))]
             ELSE ValueError
        ELSE IF AllDigits(u, 10)
                  /\ (u[1] # "0" \/ \A i \in 1..Len(u) : u[i] = "0")
        THEN [ok |-> TRUE, val |-> Signed(s, DigitsVal(u, 10))]
        ELSE ValueError

RECURSIVE Join(_)
\* ' '.join(parts)
Join(parts) ==
    IF parts = <<>> THEN <<>>
    ELSE IF Len(parts) = 1 THEN parts[1]
    ELSE parts[1] \o <<" ">> \o Join(Tail(parts))

-----------------------------------------------------------------------------
(* The command dispatcher *)

CMD_send_key == <<"s", "e", "n", "d", "_", "k", "e", "y">>

CMD_send_string == <<"s", "e", "n", "d", "_", "s", "t", "r", "i", "n", "g">>

CMD_send_hid == <<"s", "e", "n", "d", "_", "h", "i", "d">>

CMD_click == <<"c", "l", "i", "c", "k">>

CMD_move == <<"m", "o", "v", "e">>

CMD_scroll == <<"s", "c", "r", "o", "l", "l">>

CMD_quit == <<"q", "u", "i", "t">>

CMD_exit == <<"e", "x", "i", "t">>

CMD_q == <<"q">>

CMD_help == <<"h", "e", "l", "p">>

\* the call the dispatcher makes, kept for the history
NoCall == [cmd |-> "", sym |-> <<>>, nums |-> <<>>]

Call(cmd, sym, nums) == [cmd |-> cmd, sym |-> sym, nums |-> nums]

Raised == [NoEffect EXCEPT !.raised = TRUE]

\* handle_command(line), parts = line.strip().split():
\* the input function it calls and what the call does
handle_command(parts) ==
    IF parts = <<>> THEN [call |-> NoCall, eff |-> NoEffect]
    ELSE
    LET cmd == parts[1]
        n == Len(parts)
    IN  IF cmd = CMD_send_key /\ n >= 2
        THEN [call |-> Call("send_key", parts[2], <<>>),
              eff |-> send_key(parts[2])]
        ELSE IF cmd = CMD_send_string /\ n >= 2
        THEN [call |-> Call("send_string", Join(Tail(parts)), <<>>),
              eff |-> send_string(Join(Tail(parts)))]
        ELSE IF cmd = CMD_click
        THEN [call |-> Call("click", <<>>, <<>>), eff |-> click]
        ELSE IF cmd = CMD_send_hid /\ n >= 3
        THEN LET m == ParseInt0(parts[2])
                 k == ParseInt0(parts[3])
             IN  IF m.ok /\ k.ok
                 THEN [call |-> Call("send_hid", <<>>, <<m.val, k.val>>),
                       eff |-> send_hid(m.val, k.val)]
                 ELSE [call |-> NoCall, eff |-> Raised]
        ELSE IF cmd = CMD_move /\ n >= 3
        THEN LET x == ParseInt(parts[2])
                 y == ParseInt(parts[3])
             IN  IF x.ok /\ y.ok
                 THEN [call |-> Call("move", <<>>, <<x.val, y.val>>),
                       eff |-> move_mouse(x.val, y.val)]
                 ELSE [call |-> NoCall, eff |-> Raised]
        ELSE IF cmd = CMD_scroll /\ n >= 2
        THEN LET v == ParseInt(parts[2])
             IN  IF v.ok
                 THEN [call |-> Call("scroll", <<>>, <<v.val>>),
                       eff |-> scroll(v.val)]
                 ELSE [call |-> NoCall, eff |-> Raised]
        ELSE IF cmd \in {CMD_quit, CMD_exit, CMD_q}
        THEN [call |-> NoCall, eff |-> [NoEffect EXCEPT !.quit = TRUE]]
        ELSE IF cmd = CMD_help
        THEN [call |-> NoCall, eff |-> [NoEffect EXCEPT !.out = <<"help">>]]
        ELSE [call |-> NoCall, eff |-> [NoEffect EXCEPT !.out = <<"Unknown", cmd>>]]

-----------------------------------------------------------------------------
(* The lines read from stdin, as token lists *)

Lines == {
    <<>>,
    <<CMD_send_key, <<"a">>>>,
    <<CMD_send_key, <<"E", "n", "t", "e", "r">>>>,
    <<CMD_send_key, <<"é">>>>,
    <<CMD_send_string, <<"h", "i">>>>,
    <<CMD_send_string, <<"é", "B">>>>,
    <<CMD_send_hid, <<"0", "x", "0", "2">>, <<"4">>>>,
    <<CMD_click>>,
    <<CMD_move, <<"-", "1", "2", "5">>, <<"4", "9">>>>,
    <<CMD_scroll, <<"-", "1">>>>,
    <<CMD_scroll, <<"x">>>>,
    <<CMD_scroll>>,
    <<<<"f", "o", "o">>>>,
    <<CMD_help>>,
    <<CMD_quit>> }

\* the time the loop may sleep in one step while a source is pending
Delays == {40}

-----------------------------------------------------------------------------
(* The attribute tree: Application, Service, Characteristic, Descriptor.   *)
(* An object path is modelled by its components after the application's    *)
(* path: '/org/bluez/baremobile/service0/char4' is <<"service", 0,         *)
(* "char", 4>>.                                                            *)

\* bytes([...]) of the HID report map
REPORT_MAP == <<
    5, 1, 9, 6, 161, 1, 133, 1, 5, 7, 25, 224,
    41, 231, 21, 0, 37, 1, 117, 1, 149, 8, 129, 2,
    149, 1, 117, 8, 129, 1, 149, 6, 117, 8, 21, 0,
    37, 101, 5, 7, 25, 0, 41, 101, 129, 0, 5, 8,
    25, 1, 41, 5, 149, 5, 117, 1, 145, 2, 149, 1,
    117, 3, 145, 1, 192, 5, 1, 9, 2, 161, 1, 133,
    2, 9, 1, 161, 0, 5, 9, 25, 1, 41, 3, 21,
    0, 37, 1, 149, 3, 117, 1, 129, 2, 149, 1, 117,
    5, 129, 1, 5, 1, 9, 48, 9, 49, 9, 56, 21,
    129, 37, 127, 117, 8, 149, 3, 129, 6, 192, 192 >>

\* Service.__init__: self.path = self.PATH_BASE + str(index)
ServicePath(index) == <<"service", index>>

\* variant: every characteristic of a service gets the same path
CharacteristicPath_NoIndex(service_path, index) == service_path \o <<"char", 0>>

\* Characteristic.__init__: self.path = service.path + '/char' + str(index)
CharacteristicPath(service_path, index) == service_path \o <<"char", index>>

\* Descriptor.__init__: self.path = chrc.path + '/desc' + str(index)
DescriptorPath(chrc_path, index) == chrc_path \o <<"desc", index>>

\* Service.__init__
Service(index, uuid, primary) ==
    [path |-> ServicePath(index), uuid |-> uuid, primary |-> primary,
     characteristics |-> <<>>]

\* Characteristic.__init__
Characteristic(index, uuid, flags, service_path) ==
    [path |-> CharacteristicPath(service_path, index), uuid |-> uuid,
     service |-> service_path, flags |-> flags, descriptors |-> <<>>,
     value |-> <<>>]

\* Descriptor.__init__
Descriptor(index, uuid, flags, chrc_path) ==
    [path |-> DescriptorPath(chrc_path, index), uuid |-> uuid,
     flags |-> flags, chrc |-> chrc_path, value |-> <<>>]

ProtocolModeChrc(index, service_path) ==
    [Characteristic(index, "00002a4e-0000-1000-8000-00805f9b34fb",
                    <<"read", "write-without-response">>, service_path)
        EXCEPT !.value = <<1>>]

HIDInfoChrc(index, service_path) ==
    [Characteristic(index, "00002a4a-0000-1000-8000-00805f9b34fb",
                    <<"read">>, service_path)
        EXCEPT !.value = <<17, 1, 0, 2>>]

ControlPointChrc(index, service_path) ==
    Characteristic(index, "00002a4c-0000-1000-8000-00805f9b34fb",
                   <<"write-without-response">>, service_path)

ReportMapChrc(index, service_path) ==
    [Characteristic(index, "00002a4b-0000-1000-8000-00805f9b34fb",
                    <<"secure-read">>, service_path)
        EXCEPT !.value = REPORT_MAP]

ReportReferenceDesc(index, chrc_path, report_id, report_type) ==
    [Descriptor(index, "00002908-0000-1000-8000-00805f9b34fb",
                <<"secure-read">>, chrc_path)
        EXCEPT !.value = <<report_id, report_type>>]

ReportChrc(index, service_path, report_id, size) ==
    LET c == Characteristic(index, "00002a4d-0000-1000-8000-00805f9b34fb",
                            <<"secure-read", "notify">>, service_path)
    IN  [c EXCEPT !.descriptors =
                      <<ReportReferenceDesc(0, c.path, report_id, 1)>>,
                  !.value = Repeat(0, size)]

OutputReportChrc(index, service_path) ==
    LET c == Characteristic(index, "00002a4d-0000-1000-8000-00805f9b34fb",
                 <<"secure-read", "write", "write-without-response">>,
                 service_path)
    IN  [c EXCEPT !.descriptors = <<ReportReferenceDesc(0, c.path, 1, 2)>>,
                  !.value = <<0>>]

\* variant: the order of section 4.2, Report Map before HID Control Point
HIDService_MapFirst(index) ==
    LET s == Service(index, "00001812-0000-1000-8000-00805f9b34fb", TRUE)
    IN  [s EXCEPT !.characteristics = <<
            ProtocolModeChrc(0, s.path),
            HIDInfoChrc(1, s.path),
            ReportMapChrc(2, s.path),
            ControlPointChrc(3, s.path),
            ReportChrc(4, s.path, 1, 8),
            ReportChrc(5, s.path, 2, 4),
            OutputReportChrc(6, s.path) >>]

\* HIDService.__init__: the add_characteristic calls in their order
HIDService(index) ==
    LET s == Service(index, "00001812-0000-1000-8000-00805f9b34fb", TRUE)
    IN  [s EXCEPT !.characteristics = <<
            ProtocolModeChrc(0, s.path),
            HIDInfoChrc(1, s.path),
            ControlPointChrc(2, s.path),
            ReportMapChrc(3, s.path),
            ReportChrc(4, s.path, 1, 8),
            ReportChrc(5, s.path, 2, 4),
            OutputReportChrc(6, s.path) >>]

ManufacturerChrc(index, service_path) ==
    [Characteristic(index, "00002a29-0000-1000-8000-00805f9b34fb",
                    <<"read">>, service_path)
        EXCEPT !.value = <<98, 97, 114, 101, 109, 111, 98, 105, 108, 101>>]

PnPIDChrc(index, service_path) ==
    [Characteristic(index, "00002a50-0000-1000-8000-00805f9b34fb",
                    <<"read">>, service_path)
        EXCEPT !.value = <<2, 172, 5, 1, 0, 1, 0>>]

DeviceInfoService(index) ==
    LET s == Service(index, "0000180a-0000-1000-8000-00805f9b34fb", TRUE)
    IN  [s EXCEPT !.characteristics = <<ManufacturerChrc(0, s.path),
                                        PnPIDChrc(1, s.path)>>]

BatteryLevelChrc(index, service_path) ==
    [Characteristic(index, "00002a19-0000-1000-8000-00805f9b34fb",
                    <<"read", "notify">>, service_path)
        EXCEPT !.value = <<100>>]

BatteryService(index) ==
    LET s == Service(index, "0000180f-0000-1000-8000-00805f9b34fb", TRUE)
    IN  [s EXCEPT !.characteristics = <<BatteryLevelChrc(0, s.path)>>]

\* app.services after the add_service calls of main
services == <<HIDService(0), DeviceInfoService(1), BatteryService(2)>>

\* hid_service.kb_report, hid_service.mouse_report, hid_service.led_report
kb_report == services[1].characteristics[5]

mouse_report == services[1].characteristics[6]

led_report == services[1].characteristics[7]

\* the characteristic and descriptor objects of the tree
Characteristics ==
    UNION {{services[i].characteristics[j] :
                j \in 1..Len(services[i].characteristics)} :
            i \in 1..Len(services)}

Descriptors ==
    UNION {{c.descriptors[k] : k \in 1..Len(c.descriptors)} :
            c \in Characteristics}

\* the characteristics the daemon lets the remote side write
Writable ==
    {c \in Characteristics :
        \/ Index(c.flags, "write") > 0
        \/ Index(c.flags, "write-without-response") > 0}

\* .value of the characteristics and descriptors as constructed, by path;
\* the two input reports have their own variables
InitialValue ==
    LET objs == {[path |-> c.path, value |-> c.value] :
                    c \in Characteristics \ {kb_report, mouse_report}}
                \cup {[path |-> d.path, value |-> d.value] : d \in Descriptors}
    IN  [p \in {o.path : o \in objs} |->
            (CHOOSE o \in objs : o.path = p).value]

-----------------------------------------------------------------------------
(* The state machine *)

Init ==
    /\ kb_value = Repeat(0, 8)
    /\ mouse_value = Repeat(0, 4)
    /\ timers = {}
    /\ nextId = 1
    /\ now = 0
    /\ running = TRUE
    /\ watching = TRUE
    /\ nreads = 0
    /\ acts = <<>>
    /\ log = <<>>
    /\ stdout = <<>>
    /\ eof = FALSE
    /\ value = [p \in {c.path : c \in Writable} |-> InitialValue[p]]
    /\ response = <<>>
    /\ nwrites = 0
    /\ last_write = <<>>
    /\ seen = <<>>
    /\ notifying = [chrc \in {"kb", "mouse"} |-> FALSE]
    /\ pc = "run"
    /\ adapter_path = "hci0"
    /\ app_reg = "pending"
    /\ adv_reg = "pending"
    /\ exit_status = -1
    /\ argv = <<>>
    /\ caption = <<>>
    /\ parsed = <<>>

\* variant: a report is stored by UUID, in every report characteristic
LastReport_ByUuid(reports, chrc, old) ==
    IF reports = <<>> THEN old ELSE reports[Len(reports)].data

\* variant: the signal is emitted but the value is not stored
LastReport_Stale(reports, chrc, old) == old

RECURSIVE LastReport(_, _, _)
\* the value a characteristic holds after the reports sent in one call
LastReport(reports, chrc, old) ==
    IF reports = <<>> THEN old
    ELSE IF reports[Len(reports)].chrc = chrc THEN reports[Len(reports)].data
    ELSE LastReport(SubSeq(reports, 1, Len(reports) - 1), chrc, old)

\* variant: a call made by the dispatcher cancels the pending sources
Commit_Cancel(eff, a, src, rest) ==
    /\ kb_value' = LastReport(eff.reports, "kb", kb_value)
    /\ mouse_value' = LastReport(eff.reports, "mouse", mouse_value)
    /\ log' = log \o [i \in 1..Len(eff.reports) |->
                        [t |-> now, chrc |-> eff.reports[i].chrc,
                         data |-> eff.reports[i].data, act |-> a, src |-> src,
                         notifying |-> notifying[eff.reports[i].chrc]]]
    /\ timers' = (IF src = 0 THEN {} ELSE rest) \cup
                    {[id |-> nextId + i - 1, due |-> now + eff.sched[i].delay,
                      cb |-> eff.sched[i].cb, act |-> a] :
                        i \in 1..Len(eff.sched)}
    /\ nextId' = nextId + Len(eff.sched)
    /\ stdout' = eff.out

\* variant: a call that sends no report clears the buffers
Commit_Reset(eff, a, src, rest) ==
    /\ kb_value' = LastReport(eff.reports, "kb", Repeat(0, 8))
    /\ mouse_value' = LastReport(eff.reports, "mouse", Repeat(0, 4))
    /\ log' = log \o [i \in 1..Len(eff.reports) |->
                        [t |-> now, chrc |-> eff.reports[i].chrc,
                         data |-> eff.reports[i].data, act |-> a, src |-> src,
                         notifying |-> notifying[eff.reports[i].chrc]]]
    /\ timers' = rest \cup
                    {[id |-> nextId + i - 1, due |-> now + eff.sched[i].delay,
                      cb |-> eff.sched[i].cb, act |-> a] :
                        i \in 1..Len(eff.sched)}
    /\ nextId' = nextId + Len(eff.sched)
    /\ stdout' = eff.out

\* the effect of one call on the buffers, the signal history and the
\* pending sources; a is the action the call belongs to, src the source
\* that made the call (0: the dispatcher), rest the sources that stay pending
Commit(eff, a, src, rest) ==
    /\ kb_value' = LastReport(eff.reports, "kb", kb_value)
    /\ mouse_value' = LastReport(eff.reports, "mouse", mouse_value)
    /\ log' = log \o [i \in 1..Len(eff.reports) |->
                        [t |-> now, chrc |-> eff.reports[i].chrc,
                         data |-> eff.reports[i].data, act |-> a, src |-> src,
                         notifying |-> notifying[eff.reports[i].chrc]]]
    /\ timers' = rest \cup
                    {[id |-> nextId + i - 1, due |-> now + eff.sched[i].delay,
                      cb |-> eff.sched[i].cb, act |-> a] :
                        i \in 1..Len(eff.sched)}
    /\ nextId' = nextId + Len(eff.sched)
    /\ stdout' = eff.out

\* watch_stdin with condition IN and a line read; when handle_command
\* raises, the callback does not return True and the watch is removed
WatchStdinLine(parts) ==
    /\ running
    /\ watching
    /\ nreads < MaxReads
    /\ \E r \in {handle_command(parts)} :
       LET called == r.call.cmd # ""
           a == IF called THEN Len(acts) + 1 ELSE 0
       IN  /\ Commit(r.eff, a, 0, timers)
           /\ acts' = IF called
                      THEN Append(acts, [cmd |-> r.call.cmd, sym |-> r.call.sym,
                                         nums |-> r.call.nums, t0 |-> now])
                      ELSE acts
           /\ running' = ~r.eff.quit
           /\ watching' = ~r.eff.raised
           /\ pc' = IF r.eff.quit THEN "exit" ELSE pc
           /\ exit_status' = IF r.eff.quit THEN 0 ELSE exit_status
    /\ nreads' = nreads + 1
    /\ UNCHANGED <<now, eof, gatt, adapter_path, app_reg, adv_reg, argv, ax>>

\* watch_stdin with condition IN at end of input: readline() returns ''
WatchStdinEof ==
    /\ running
    /\ watching
    /\ nreads < MaxReads
    /\ nreads' = nreads + 1
    /\ eof' = TRUE
    /\ stdout' = <<>>
    /\ UNCHANGED <<kb_value, mouse_value, timers, nextId, now, running,
                   watching, acts, log, gatt, proc, ax>>

\* watch_stdin with condition HUP
WatchStdinHup ==
    /\ running
    /\ watching
    /\ nreads < MaxReads
    /\ watching' = FALSE
    /\ nreads' = nreads + 1
    /\ eof' = TRUE
    /\ stdout' = <<>>
    /\ UNCHANGED <<kb_value, mouse_value, timers, nextId, now, running,
                   acts, log, gatt, proc, ax>>

\* the callback of a timeout source
Callback(cb) ==
    IF cb.fn = "send_report" THEN send_report(cb.chrc, cb.data)
    ELSE send_key(cb.char)

\* variant: the callback returns a true value, so the source stays attached
FireTimer_Repeat(tm) ==
    /\ running
    /\ tm \in timers
    /\ tm.due <= now
    /\ \E eff \in {Callback(tm.cb)} :
           Commit(eff, tm.act, tm.id, timers)
    /\ UNCHANGED <<now, running, watching, nreads, acts, eof, gatt, proc, ax>>

\* the main loop dispatches a ready timeout source; its callback returns
\* False, so the source is removed
FireTimer(tm) ==
    /\ running
    /\ tm \in timers
    /\ tm.due <= now
    /\ \E eff \in {Callback(tm.cb)} :
           Commit(eff, tm.act, tm.id, timers \ {tm})
    /\ UNCHANGED <<now, running, watching, nreads, acts, eof, gatt, proc, ax>>

NextDue == CHOOSE d \in {tm.due : tm \in timers} :
               \A tm \in timers : d <= tm.due

\* the main loop sleeps until the next source is ready, or wakes earlier
Advance ==
    /\ running
    /\ timers # {}
    /\ now < NextDue
    /\ \/ now' = NextDue
       \/ \E d \in Delays : now + d < NextDue /\ now' = now + d
    /\ UNCHANGED <<kb_value, mouse_value, timers, nextId, running, watching,
                   nreads, acts, log, stdout, eof, gatt, proc, ax>>

Next ==
    \/ \E parts \in Lines : WatchStdinLine(parts)
    \/ WatchStdinEof
    \/ WatchStdinHup
    \/ \E tm \in timers : FireTimer(tm)
    \/ Advance

Spec == Init /\ [][Next]_vars

\* the lines of the runs in which every emission is followed to its end
LiveLines == {
    <<CMD_send_key, <<"a">>>>,
    <<CMD_send_string, <<"h">>>>,
    <<CMD_click>>,
    <<CMD_scroll, <<"-", "1">>>>,
    <<CMD_quit>> }

LiveNext ==
    \/ \E parts \in LiveLines : WatchStdinLine(parts)
    \/ \E tm \in timers : FireTimer(tm)
    \/ Advance

\* the main loop dispatches every ready source and its clock advances
FairSpec ==
    /\ Init
    /\ [][LiveNext]_vars
    /\ WF_vars(\E tm \in timers : FireTimer(tm))
    /\ WF_vars(Advance)

-----------------------------------------------------------------------------
(* One call of move_mouse or scroll, over a range of arguments *)

MaxDelta == 150

MaxScroll == 4

\* values of the other axis, among them the 300 of move(300, 0)
OtherAxis == {0, 49, -127, 300}

\* scroll amounts whose low byte would be 0x80
WrapAmounts == {-128, 128}

\* move_mouse(hid_service, dx, dy) called once
CallMove(dx, dy) ==
    /\ running
    /\ acts = <<>>
    /\ \E eff \in {move_mouse(dx, dy)} : Commit(eff, 1, 0, timers)
    /\ acts' = <<[cmd |-> "move", sym |-> <<>>, nums |-> <<dx, dy>>,
                  t0 |-> now]>>
    /\ UNCHANGED <<now, running, watching, nreads, eof, gatt, proc, ax>>

\* scroll(hid_service, amount) called once
CallScroll(amount) ==
    /\ running
    /\ acts = <<>>
    /\ \E eff \in {scroll(amount)} : Commit(eff, 1, 0, timers)
    /\ acts' = <<[cmd |-> "scroll", sym |-> <<>>, nums |-> <<amount>>,
                  t0 |-> now]>>
    /\ UNCHANGED <<now, running, watching, nreads, eof, gatt, proc, ax>>

MouseNext ==
    \/ \E dx \in -MaxDelta..MaxDelta, dy \in OtherAxis : CallMove(dx, dy)
    \/ \E dx \in OtherAxis, dy \in -MaxDelta..MaxDelta : CallMove(dx, dy)
    \/ \E amount \in (-MaxScroll..MaxScroll) \cup WrapAmounts :
           CallScroll(amount)
    \/ \E tm \in timers : FireTimer(tm)
    \/ Advance

MouseSpec == Init /\ [][MouseNext]_vars

-----------------------------------------------------------------------------
(* The attribute tree over D-Bus: the remote side introspects it and       *)
(* writes to the writable characteristics while commands are served        *)

MaxWrites == 2         \* the remote side writes at most this often

\* the current .value of a characteristic or descriptor; only send_report
\* and WriteValue assign it after construction
LiveValue(path) ==
    IF path = kb_report.path THEN kb_value
    ELSE IF path = mouse_report.path THEN mouse_value
    ELSE IF path \in DOMAIN value THEN value[path]
    ELSE InitialValue[path]

\* variant: the properties of a characteristic carry its value
ChrcProperties_Value(c) ==
    [iface |-> "org.bluez.GattCharacteristic1",
     props |-> [Service |-> c.service, UUID |-> c.uuid, Flags |-> c.flags,
                Descriptors |-> [k \in 1..Len(c.descriptors) |->
                                    c.descriptors[k].path],
                Value |-> LiveValue(c.path)]]

\* Service.get_properties
ServiceProperties(s) ==
    [iface |-> "org.bluez.GattService1",
     props |-> [UUID |-> s.uuid, Primary |-> s.primary,
                Characteristics |-> [j \in 1..Len(s.characteristics) |->
                                        s.characteristics[j].path]]]

\* Characteristic.get_properties
ChrcProperties(c) ==
    [iface |-> "org.bluez.GattCharacteristic1",
     props |-> [Service |-> c.service, UUID |-> c.uuid, Flags |-> c.flags,
                Descriptors |-> [k \in 1..Len(c.descriptors) |->
                                    c.descriptors[k].path]]]

\* Descriptor.get_properties
DescProperties(d) ==
    [iface |-> "org.bluez.GattDescriptor1",
     props |-> [Characteristic |-> d.chrc, UUID |-> d.uuid,
                Flags |-> d.flags]]

\* response[key] = val on a dict that keeps insertion order
DictSet(resp, key, val) ==
    IF \E i \in 1..Len(resp) : resp[i].path = key
    THEN [i \in 1..Len(resp) |->
            IF resp[i].path = key THEN [path |-> key, ifaces |-> val]
            ELSE resp[i]]
    ELSE Append(resp, [path |-> key, ifaces |-> val])

RECURSIVE AddDescriptors(_, _)
\* for desc in chrc.get_descriptors(): response[...] = ...
AddDescriptors(resp, descs) ==
    IF descs = <<>> THEN resp
    ELSE AddDescriptors(
            DictSet(resp, Head(descs).path, DescProperties(Head(descs))),
            Tail(descs))

RECURSIVE AddCharacteristics(_, _)
\* for chrc in service.get_characteristics(): response[...] = ...
AddCharacteristics(resp, chrcs) ==
    IF chrcs = <<>> THEN resp
    ELSE AddCharacteristics(
            AddDescriptors(
                DictSet(resp, Head(chrcs).path, ChrcProperties(Head(chrcs))),
                Head(chrcs).descriptors),
            Tail(chrcs))

RECURSIVE AddServices(_, _)
\* for service in self.services: response[...] = ...
AddServices(resp, svcs) ==
    IF svcs = <<>> THEN resp
    ELSE AddServices(
            AddCharacteristics(
                DictSet(resp, Head(svcs).path, ServiceProperties(Head(svcs))),
                Head(svcs).characteristics),
            Tail(svcs))

\* Application.GetManagedObjects
GetManagedObjects == AddServices(<<>>, services)

\* the daemon calls GetManagedObjects, once, when it registers the tree
CallGetManagedObjects ==
    /\ running
    /\ response = <<>>
    /\ response' = GetManagedObjects
    /\ seen' = <<nwrites, Len(log)>>
    /\ UNCHANGED <<kb_value, mouse_value, timers, nextId, now, running,
                   watching, nreads, acts, log, stdout, eof, value, nwrites,
                   last_write, notifying, proc, ax>>

\* the byte arrays the remote side writes
WriteData == {<<1>>, <<1, 2>>}

\* Characteristic.WriteValue / OutputReportChrc.WriteValue
WriteValue(c, data) ==
    /\ running
    /\ nwrites < MaxWrites
    /\ value' = [value EXCEPT ![c.path] = data]
    /\ nwrites' = nwrites + 1
    /\ last_write' = [p \in DOMAIN last_write \cup {c.path} |->
                          IF p = c.path THEN data ELSE last_write[p]]
    /\ UNCHANGED <<kb_value, mouse_value, timers, nextId, now, running,
                   watching, nreads, acts, log, stdout, eof, response, seen,
                   notifying, proc, ax>>

\* the lines read while the remote side is at work
TreeLines == {
    <<CMD_click>> }

TreeNext ==
    \/ \E parts \in TreeLines : WatchStdinLine(parts)
    \/ \E tm \in timers : FireTimer(tm)
    \/ Advance
    \/ CallGetManagedObjects
    \/ \E c \in Writable, data \in WriteData : WriteValue(c, data)

TreeSpec == Init /\ [][TreeNext]_vars

-----------------------------------------------------------------------------
(* The remote side subscribes to and unsubscribes from the input reports   *)
(* while commands are served                                               *)

\* the report characteristics that notify
ReportChrcs == {"kb", "mouse"}

\* ReportChrc.StartNotify
StartNotify(chrc) ==
    /\ running
    /\ notifying' = [notifying EXCEPT ![chrc] = TRUE]
    /\ stdout' = <<"notifications ON">>
    /\ UNCHANGED <<kb_value, mouse_value, timers, nextId, now, running, watching,
                   nreads, acts, log, eof, value, response, nwrites,
                   last_write, seen, proc, ax>>

\* ReportChrc.StopNotify
StopNotify(chrc) ==
    /\ running
    /\ notifying' = [notifying EXCEPT ![chrc] = FALSE]
    /\ stdout' = <<"notifications OFF">>
    /\ UNCHANGED <<kb_value, mouse_value, timers, nextId, now, running, watching,
                   nreads, acts, log, eof, value, response, nwrites,
                   last_write, seen, proc, ax>>

\* the lines read while the remote side subscribes and unsubscribes
NotifyLines == {
    <<CMD_send_key, <<"a">>>>,
    <<CMD_click>> }

NotifyNext ==
    \/ \E parts \in NotifyLines : WatchStdinLine(parts)
    \/ \E tm \in timers : FireTimer(tm)
    \/ Advance
    \/ \E chrc \in ReportChrcs : StartNotify(chrc)
    \/ \E chrc \in ReportChrcs : StopNotify(chrc)

NotifySpec == Init /\ [][NotifyNext]_vars

-----------------------------------------------------------------------------
(* The process from the start of main() to its exit *)

\* the command lines the program is started with: none, or one action
Argvs == {
    <<>>,
    <<CMD_click>>,
    <<CMD_send_key, <<"a">>>>,
    <<CMD_scroll, <<"-", "1">>>> }

\* the state in which main() starts; the objects are not exported yet
StartInit ==
    /\ kb_value = Repeat(0, 8)
    /\ mouse_value = Repeat(0, 4)
    /\ timers = {}
    /\ nextId = 1
    /\ now = 0
    /\ running = FALSE
    /\ watching = TRUE
    /\ nreads = 0
    /\ acts = <<>>
    /\ log = <<>>
    /\ stdout = <<>>
    /\ eof = FALSE
    /\ value = [p \in {c.path : c \in Writable} |-> InitialValue[p]]
    /\ response = <<>>
    /\ nwrites = 0
    /\ last_write = <<>>
    /\ seen = <<>>
    /\ notifying = [chrc \in {"kb", "mouse"} |-> FALSE]
    /\ pc = "main"
    /\ adapter_path = "unknown"
    /\ app_reg = "unsent"
    /\ adv_reg = "unsent"
    /\ exit_status = -1
    /\ argv \in Argvs
    /\ caption = <<>>
    /\ parsed = <<>>

\* main() up to mainloop.run(): sys.exit(1) when find_adapter returns None,
\* else the tree is built, both registrations are sent and the loop starts
Main(found) ==
    /\ pc = "main"
    /\ IF found
       THEN /\ adapter_path' = "hci0"
            /\ app_reg' = "pending"
            /\ adv_reg' = "pending"
            /\ running' = TRUE
            /\ pc' = "run"
            /\ UNCHANGED exit_status
       ELSE /\ adapter_path' = "none"
            /\ stdout' = <<"ERROR: No Bluetooth adapter">>
            /\ pc' = "exit"
            /\ exit_status' = 1
            /\ UNCHANGED <<app_reg, adv_reg, running>>
    /\ found => UNCHANGED stdout
    /\ UNCHANGED <<kb_value, mouse_value, timers, nextId, now, watching,
                   nreads, acts, log, eof, gatt, argv, ax>>

\* reply_handler of RegisterApplication
on_app_registered ==
    /\ running
    /\ app_reg = "pending"
    /\ app_reg' = "ok"
    /\ UNCHANGED <<kb_value, mouse_value, timers, nextId, now, running,
                   watching, nreads, acts, log, stdout, eof, gatt, pc,
                   adapter_path, adv_reg, exit_status, argv, ax>>

\* error_handler of RegisterApplication: mainloop.quit(), then main returns
on_app_error ==
    /\ running
    /\ app_reg = "pending"
    /\ app_reg' = "error"
    /\ running' = FALSE
    /\ pc' = "exit"
    /\ exit_status' = 0
    /\ UNCHANGED <<kb_value, mouse_value, timers, nextId, now, watching,
                   nreads, acts, log, stdout, eof, gatt, adapter_path,
                   adv_reg, argv, ax>>

\* reply_handler of RegisterAdvertisement
on_adv_registered ==
    /\ running
    /\ adv_reg = "pending"
    /\ adv_reg' = "ok"
    /\ UNCHANGED <<kb_value, mouse_value, timers, nextId, now, running,
                   watching, nreads, acts, log, stdout, eof, gatt, pc,
                   adapter_path, app_reg, exit_status, argv, ax>>

\* error_handler of RegisterAdvertisement: mainloop.quit(), then main returns
on_adv_error ==
    /\ running
    /\ adv_reg = "pending"
    /\ adv_reg' = "error"
    /\ running' = FALSE
    /\ pc' = "exit"
    /\ exit_status' = 0
    /\ UNCHANGED <<kb_value, mouse_value, timers, nextId, now, watching,
                   nreads, acts, log, stdout, eof, gatt, adapter_path,
                   app_reg, argv, ax>>

\* the daemon answers a registration
Replies ==
    \/ on_app_registered
    \/ on_app_error
    \/ on_adv_registered
    \/ on_adv_error

\* the lines read in the runs that are followed from start to exit
StartLines == {
    <<CMD_click>>,
    <<CMD_help>>,
    <<CMD_quit>> }

StartNext ==
    \/ \E found \in BOOLEAN : Main(found)
    \/ Replies
    \/ \E parts \in StartLines : WatchStdinLine(parts)
    \/ WatchStdinEof
    \/ WatchStdinHup
    \/ \E tm \in timers : FireTimer(tm)
    \/ Advance

\* main() runs on, the daemon answers, and the main loop dispatches every
\* ready source and lets its clock advance
StartSpec ==
    /\ StartInit
    /\ [][StartNext]_vars
    /\ WF_vars(\E found \in BOOLEAN : Main(found))
    /\ WF_vars(Replies)
    /\ WF_vars(\E tm \in timers : FireTimer(tm))
    /\ WF_vars(Advance)

-----------------------------------------------------------------------------
(* One call of send_key, over the characters it may be given *)

\* strings that are neither a key of the tables nor a name
OutsideKeys == {<<"é">>, <<"€">>, <<"ß">>, <<"a", "b">>, <<>>}

KeyInputs == {<<c>> : c \in CharKeys \cup ShiftKeys} \cup OutsideKeys

\* send_key(hid_service, char) called once
CallSendKey(char) ==
    /\ running
    /\ acts = <<>>
    /\ \E eff \in {send_key(char)} : Commit(eff, 1, 0, timers)
    /\ acts' = <<[cmd |-> "send_key", sym |-> char, nums |-> <<>>,
                  t0 |-> now]>>
    /\ UNCHANGED <<now, running, watching, nreads, eof, gatt, proc, ax>>

KeyNext ==
    \/ \E char \in KeyInputs : CallSendKey(char)
    \/ \E tm \in timers : FireTimer(tm)
    \/ Advance

KeySpec == Init /\ [][KeyNext]_vars

-----------------------------------------------------------------------------
(* The caption parser of the accessibility helper.  A caption is modelled  *)
(* as a sequence of atoms: a word, a comma or a blank; the string is their *)
(* concatenation.                                                          *)

MaxCaption == 7        \* a caption has at most this many atoms

\* the atoms captions are made of: a word that is no role, two roles, and
\* the characters of the separator
Atoms == {"Back", "Button", "Header", ",", " "}

Captions == UNION {[1..n -> Atoms] : n \in 0..MaxCaption}

\* the role vocabulary; each name is one word
roles == {<<w>> : w \in {
    "Button", "Header", "StaticText", "TextField", "SecureTextField",
    "Image", "Cell", "Table", "Switch", "Slider", "Link",
    "NavigationBar", "TabBar", "Tab", "SearchField", "Alert",
    "Sheet", "Toolbar", "SegmentedControl", "Picker", "ScrollView",
    "PageIndicator", "ProgressIndicator", "ActivityIndicator",
    "Stepper", "Map", "WebView", "Toggle", "Checkbox",
    "Adjustable", "Selected", "Heading"}}

RECURSIVE SplitFrom(_, _, _)
\* caption.split(', ') from position i on, cur being the part read so far
SplitFrom(s, i, cur) ==
    IF i > Len(s) THEN <<cur>>
    ELSE IF s[i] = "," /\ i < Len(s) /\ s[i + 1] = " "
    THEN <<cur>> \o SplitFrom(s, i + 2, <<>>)
    ELSE SplitFrom(s, i + 1, Append(cur, s[i]))

\* caption.split(', ')
Split(s) == SplitFrom(s, 1, <<>>)

RECURSIVE Strip(_)
\* p.strip()
Strip(p) ==
    IF p = <<>> THEN p
    ELSE IF Head(p) = " " THEN Strip(Tail(p))
    ELSE IF p[Len(p)] = " " THEN Strip(SubSeq(p, 1, Len(p) - 1))
    ELSE p

\* parts = [p.strip() for p in caption.split(', ')]
Parts(s) == [i \in 1..Len(Split(s)) |-> Strip(Split(s)[i])]

\* the value None, and a value that is a token
None == [some |-> FALSE, tok |-> <<>>]

Some(tok) == [some |-> TRUE, tok |-> tok]

\* the scan from the end for a role token, never the first token; the
\* index after the last one if there is none
RoleIndex(parts) ==
    LET found == {i \in 2..Len(parts) : parts[i] \in roles}
    IN  IF found = {} THEN Len(parts) + 1
        ELSE CHOOSE i \in found : \A j \in found : j <= i

\* parse_caption(caption)
parse_caption(s) ==
    IF s = <<>>
    THEN [label |-> <<>>, role |-> <<>>, value |-> None, traits |-> <<>>]
    ELSE LET parts == Parts(s)
         IN  IF Len(parts) = 1
             THEN [label |-> parts[1], role |-> <<>>, value |-> None,
                   traits |-> <<>>]
             ELSE LET role_idx == RoleIndex(parts)
                      role == IF role_idx <= Len(parts) THEN parts[role_idx]
                              ELSE <<>>
                      middle == SubSeq(parts, 2, role_idx - 1)
                  IN  [label |-> parts[1], role |-> role,
                       value |-> IF middle # <<>> THEN Some(middle[1])
                                 ELSE None,
                       traits |-> IF middle # <<>> THEN Tail(middle)
                                  ELSE <<>>]

\* the helper is given a caption
CaptionInit ==
    /\ kb_value = Repeat(0, 8)
    /\ mouse_value = Repeat(0, 4)
    /\ timers = {}
    /\ nextId = 1
    /\ now = 0
    /\ running = FALSE
    /\ watching = FALSE
    /\ nreads = 0
    /\ acts = <<>>
    /\ log = <<>>
    /\ stdout = <<>>
    /\ eof = FALSE
    /\ value = [p \in {c.path : c \in Writable} |-> InitialValue[p]]
    /\ response = <<>>
    /\ nwrites = 0
    /\ last_write = <<>>
    /\ seen = <<>>
    /\ notifying = [chrc \in {"kb", "mouse"} |-> FALSE]
    /\ pc = "main"
    /\ adapter_path = "unknown"
    /\ app_reg = "unsent"
    /\ adv_reg = "unsent"
    /\ exit_status = -1
    /\ argv = <<>>
    /\ caption \in Captions
    /\ parsed = <<>>

\* cmd_dump: parsed = parse_caption(el.caption)
CallParseCaption ==
    /\ parsed = <<>>
    /\ parsed' = <<parse_caption(caption)>>
    /\ UNCHANGED <<kb_value, mouse_value, timers, nextId, now, running,
                   watching, nreads, acts, log, stdout, eof, gatt, proc,
                   caption>>

CaptionNext == CallParseCaption

CaptionSpec == CaptionInit /\ [][CaptionNext]_vars

-----------------------------------------------------------------------------
(* Reading the history *)

Acts == 1..Len(acts)

\* the signals an action has emitted so far, in the order they were emitted
LogOf(a) == SelectSeq(log, LAMBDA e : e.act = a)

\* the sources of an action that are still pending
PendingOf(a) == {tm \in timers : tm.act = a}

ZeroKb == <<0, 0, 0, 0, 0, 0, 0, 0>>

ZeroMouse == <<0, 0, 0, 0>>

\* a byte read as a signed 8-bit value
Signed8(b) == IF b >= 128 THEN b - 256 ELSE b

\* the report a key press sends for the characters typed in this model
PressOf(c) ==
    CASE c = "a" -> <<0, 0, 4, 0, 0, 0, 0, 0>>
      [] c = "h" -> <<0, 0, 11, 0, 0, 0, 0, 0>>
      [] c = "i" -> <<0, 0, 12, 0, 0, 0, 0, 0>>
      [] c = "B" -> <<2, 0, 5, 0, 0, 0, 0, 0>>

Typeable == {"a", "h", "i", "B"}

KeyUpCb == [fn |-> "send_report", chrc |-> "kb", data |-> ZeroKb,
            char |-> <<>>]

ButtonUpCb == [fn |-> "send_report", chrc |-> "mouse", data |-> ZeroMouse,
               char |-> <<>>]

-----------------------------------------------------------------------------
(* C2 *)

\* the key presses the dispatcher has started, with the report each must send
KeyPressActs ==
    {a \in Acts :
        \/ acts[a].cmd = "send_key"
             /\ acts[a].sym \in {<<"a">>, <<"E", "n", "t", "e", "r">>}
        \/ acts[a].cmd = "send_hid"
             /\ \A i \in 1..2 : acts[a].nums[i] \in 0..255}

KeyPressReport(a) ==
    IF acts[a].cmd = "send_hid"
    THEN <<acts[a].nums[1], 0, acts[a].nums[2], 0, 0, 0, 0, 0>>
    ELSE IF acts[a].sym = <<"a">> THEN PressOf("a")
    ELSE <<0, 0, 40, 0, 0, 0, 0, 0>>

\* C2: a key press (send_key of an encodable symbol or a named key, send_hid)
\* emits [modifier, 0, keycode, 0, 0, 0, 0, 0] on the keyboard characteristic
\* at the moment of dispatch, and has exactly one all-zero keyboard report,
\* which is pending for 80 ms later or has fired 80 ms later, strictly after
\* the active report.
C2_KeyPress ==
    \A a \in KeyPressActs :
        LET l == LogOf(a)
            p == PendingOf(a)
            t0 == acts[a].t0
        IN  /\ Len(l) >= 1
            /\ l[1].t = t0
            /\ l[1].chrc = "kb"
            /\ l[1].data = KeyPressReport(a)
            /\ l[1].src = 0
            /\ \/ /\ Len(l) = 1
                  /\ \E tm \in p : /\ p = {tm}
                                   /\ tm.due = t0 + 80
                                   /\ tm.cb = KeyUpCb
               \/ /\ Len(l) = 2
                  /\ p = {}
                  /\ l[2].chrc = "kb"
                  /\ l[2].data = ZeroKb
                  /\ l[2].t = t0 + 80
                  /\ l[2].t > l[1].t

\* a named key has been pressed and released
C2_Witness ==
    \E a \in KeyPressActs :
        /\ acts[a].cmd = "send_key"
        /\ acts[a].sym = <<"E", "n", "t", "e", "r">>
        /\ Len(LogOf(a)) = 2
        /\ kb_value = ZeroKb

-----------------------------------------------------------------------------
(* C3 *)

\* C3: click emits a mouse report with button bit 0 set and zero dx, dy and
\* wheel at the moment of dispatch; its all-zero mouse report is pending for
\* 80 ms later or has fired 80 ms later, strictly after the active report.
C3_Click ==
    \A a \in Acts :
        acts[a].cmd = "click" =>
            LET l == LogOf(a)
                p == PendingOf(a)
                t0 == acts[a].t0
            IN  /\ Len(l) >= 1
                /\ l[1].t = t0
                /\ l[1].src = 0
                /\ l[1].chrc = "mouse"
                /\ Len(l[1].data) = 4
                /\ l[1].data[1] % 2 = 1
                /\ \A k \in 2..4 : l[1].data[k] = 0
                /\ \/ /\ Len(l) = 1
                      /\ \E tm \in p : /\ p = {tm}
                                       /\ tm.due = t0 + 80
                                       /\ tm.cb = ButtonUpCb
                   \/ /\ Len(l) = 2
                      /\ p = {}
                      /\ l[2].chrc = "mouse"
                      /\ l[2].data = ZeroMouse
                      /\ l[2].t = t0 + 80
                      /\ l[2].t > l[1].t

\* a click whose button-up report has fired
C3_Witness ==
    \E a \in Acts :
        /\ acts[a].cmd = "click"
        /\ Len(LogOf(a)) = 2
        /\ LogOf(a)[2].data = ZeroMouse

-----------------------------------------------------------------------------
(* C4 and C5 *)

StringActs == {a \in Acts : acts[a].cmd = "send_string"}

\* the active and the zero reports an action has emitted so far
ActiveOf(a) == SelectSeq(LogOf(a), LAMBDA e : e.data # ZeroKb)

ReleaseOf(a) == SelectSeq(LogOf(a), LAMBDA e : e.data = ZeroKb)

\* the pending key actions and the pending zero reports of an action
KeysOf(a) == {tm \in PendingOf(a) : tm.cb.fn = "send_key"}

UpsOf(a) == {tm \in PendingOf(a) : tm.cb.fn = "send_report"}

\* C4: send_string on a text of n encodable characters schedules n key
\* presses, all enqueued at dispatch, the i-th (0-based) i * 200 ms after
\* dispatch; each press emits its active report then and one zero report, at
\* most 2n keyboard emissions and exactly 2n (n active, n zero) once nothing
\* is pending; consecutive active reports are at least 200 ms apart.
C4_SendString ==
    \A a \in StringActs :
        (\A i \in 1..Len(acts[a].sym) : acts[a].sym[i] \in Typeable) =>
            LET text == acts[a].sym
                n == Len(text)
                t0 == acts[a].t0
                act == ActiveOf(a)
                rel == ReleaseOf(a)
            IN  /\ Len(act) + Cardinality(KeysOf(a)) = n
                /\ \A j \in 1..Len(act) :
                      /\ act[j].t = t0 + (j - 1) * 200
                      /\ act[j].chrc = "kb"
                      /\ act[j].data = PressOf(text[j])
                /\ \A j \in (Len(act) + 1)..n :
                      \E tm \in KeysOf(a) :
                          /\ tm.due = t0 + (j - 1) * 200
                          /\ tm.cb.char = <<text[j]>>
                /\ \A j \in 2..Len(act) : act[j].t - act[j - 1].t >= 200
                /\ Len(rel) + Cardinality(UpsOf(a)) = Len(act)
                /\ \A j \in 1..Len(rel) : rel[j].chrc = "kb"
                /\ Len(LogOf(a)) <= 2 * n
                /\ PendingOf(a) = {} =>
                      /\ Len(LogOf(a)) = 2 * n
                      /\ Len(act) = n
                      /\ Len(rel) = n

\* send_string("hi") has typed both characters: 4 emissions
C4_Witness ==
    \E a \in StringActs :
        /\ acts[a].sym = <<"h", "i">>
        /\ PendingOf(a) = {}
        /\ Len(LogOf(a)) = 4

\* the emissions of action a at time t
LogAt(a, t) == SelectSeq(LogOf(a), LAMBDA e : e.t = t)

\* the state of character i (1-based) of a send_string: its key action is
\* pending for (i - 1) * 200 ms after dispatch, or it was pressed then and
\* its zero report is pending for, or has fired, 80 ms later
TypedOnTime(a, i) ==
    LET c == acts[a].sym[i]
        tp == acts[a].t0 + (i - 1) * 200
        press == LogAt(a, tp)
        up == LogAt(a, tp + 80)
        key == {tm \in KeysOf(a) : tm.due = tp /\ tm.cb.char = <<c>>}
        zero == {tm \in UpsOf(a) : tm.due = tp + 80}
    IN  \/ /\ Cardinality(key) = 1
           /\ press = <<>> /\ up = <<>> /\ zero = {}
        \/ /\ key = {}
           /\ Len(press) = 1 /\ press[1].chrc = "kb"
           /\ press[1].data = PressOf(c)
           /\ \/ Cardinality(zero) = 1 /\ up = <<>>
              \/ /\ zero = {}
                 /\ Len(up) = 1 /\ up[1].chrc = "kb" /\ up[1].data = ZeroKb

\* the state of a character that does not encode: its key action is pending
\* or gone, and nothing was emitted at its time nor 80 ms later
Skipped(a, i) ==
    LET tp == acts[a].t0 + (i - 1) * 200
    IN  /\ LogAt(a, tp) = <<>>
        /\ LogAt(a, tp + 80) = <<>>
        /\ {tm \in UpsOf(a) : tm.due = tp + 80} = {}

Encodable(a) == {i \in 1..Len(acts[a].sym) : acts[a].sym[i] \in Typeable}

\* a step in which the key action of a character that does not encode fires
SkipStep(tm) ==
    /\ tm \in timers
    /\ tm \notin timers'
    /\ tm.cb.fn = "send_key"
    /\ tm.cb.char[1] \notin Typeable

\* C5: in send_string a character that fails to encode produces no emission
\* and changes no buffer, and every other character at index i is still
\* pressed at i * 200 ms and released 80 ms later; a text with k encodable
\* characters yields exactly 2k emissions.
C5_SkipUnencodable ==
    /\ [](\A a \in StringActs :
            /\ \A i \in 1..Len(acts[a].sym) :
                  IF i \in Encodable(a) THEN TypedOnTime(a, i)
                  ELSE Skipped(a, i)
            /\ Len(LogOf(a)) <= 2 * Cardinality(Encodable(a))
            /\ PendingOf(a) = {} =>
                  Len(LogOf(a)) = 2 * Cardinality(Encodable(a)))
    /\ [][\A tm \in timers :
            SkipStep(tm) =>
                /\ UNCHANGED <<kb_value, mouse_value, log>>
                /\ timers' = timers \ {tm}]_vars

\* the text with a character that does not encode has been typed: its second
\* character was pressed one interval after dispatch and released
C5_Witness ==
    \E a \in StringActs :
        /\ acts[a].sym = <<"é", "B">>
        /\ PendingOf(a) = {}
        /\ Len(LogOf(a)) = 2
        /\ LogOf(a)[1].t = acts[a].t0 + 200
        /\ LogOf(a)[1].data = PressOf("B")

-----------------------------------------------------------------------------
(* C6 to C10: one move or one scroll *)

MoveActs == {a \in Acts : acts[a].cmd = "move"}

ScrollActs == {a \in Acts : acts[a].cmd = "scroll"}

\* N = max(1, max(|dx|, |dy|) div 50)
StepCount(dx, dy) == Max2(1, Max2(Abs(dx), Abs(dy)) \div 50)

\* C6: move(dx, dy) emits N = max(1, max(|dx|, |dy|) div 50) stepped mouse
\* reports, the j-th 8 ms after the previous one, and then exactly one
\* all-zero mouse report, strictly after the last stepped report; what has
\* not fired yet is pending for its time.  move(300, 0) gives 6 + 1 reports.
C6_MoveSteps ==
    \A a \in MoveActs :
        LET n == StepCount(acts[a].nums[1], acts[a].nums[2])
            l == LogOf(a)
            p == PendingOf(a)
            t0 == acts[a].t0
        IN  /\ Len(l) + Cardinality(p) = n + 1
            /\ \A j \in 1..Len(l) :
                  /\ l[j].chrc = "mouse"
                  /\ l[j].t = t0 + (j - 1) * 8
                  /\ j > 1 => l[j].t > l[j - 1].t
            /\ \A j \in (Len(l) + 1)..(n + 1) :
                  \E tm \in p :
                      /\ tm.due = t0 + (j - 1) * 8
                      /\ tm.cb.chrc = "mouse"
                      /\ j = n + 1 => tm.cb.data = ZeroMouse
            /\ Len(l) = n + 1 =>
                  /\ l[n + 1].data = ZeroMouse
                  /\ l[n + 1].t > l[n].t
            /\ (acts[a].nums = <<300, 0>> /\ p = {}) => Len(l) = 7

\* move(300, 0) has emitted its 6 stepped reports and the zero report
C6_Witness ==
    \E a \in MoveActs :
        /\ acts[a].nums = <<300, 0>>
        /\ PendingOf(a) = {}
        /\ Len(LogOf(a)) = 7
        /\ mouse_value = ZeroMouse

\* the dx, dy and wheel bytes of a mouse report are signed values in
\* [-127, 127]
InRange(data) ==
    /\ Len(data) = 4
    /\ \A k \in 2..4 : data[k] \in 0..255 /\ Signed8(data[k]) \in -127..127

\* C7: every mouse report a move or a scroll emits, or has queued, carries
\* dx, dy and wheel bytes that read as signed 8-bit values lie in
\* [-127, 127]; no call is rejected: each has queued or emitted a report.
C7_MouseRange ==
    /\ \A i \in 1..Len(log) : log[i].chrc = "mouse" => InRange(log[i].data)
    /\ \A tm \in timers : tm.cb.chrc = "mouse" => InRange(tm.cb.data)
    /\ \A a \in MoveActs \cup ScrollActs :
          Len(LogOf(a)) + Cardinality(PendingOf(a)) >= 1

\* a move beyond the signed 8-bit range has emitted a negative step
C7_Witness ==
    \E a \in MoveActs :
        /\ acts[a].nums[1] < -127
        /\ Len(LogOf(a)) >= 1
        /\ LogOf(a)[1].data[2] > 128

RECURSIVE SumByte(_, _, _)
\* the sum of byte k, read as signed, over the first n reports of l
SumByte(l, k, n) ==
    IF n = 0 THEN 0 ELSE SumByte(l, k, n - 1) + Signed8(l[n].data[k])

\* C8: once a move has emitted all its reports, the dx of its stepped
\* reports sum to the requested dx within half a unit per stepped report,
\* likewise for dy; the difference is 0 for move(300, 0).
C8_MoveSum ==
    \A a \in MoveActs :
        PendingOf(a) = {} =>
            LET n == Len(LogOf(a)) - 1
                sx == SumByte(LogOf(a), 2, n)
                sy == SumByte(LogOf(a), 3, n)
            IN  /\ 2 * Abs(sx - acts[a].nums[1]) <= n
                /\ 2 * Abs(sy - acts[a].nums[2]) <= n
                /\ acts[a].nums = <<300, 0>> => sx = 300 /\ sy = 0

\* a finished move whose steps do not add up exactly
C8_Witness ==
    \E a \in MoveActs :
        /\ PendingOf(a) = {}
        /\ Len(LogOf(a)) = 3
        /\ SumByte(LogOf(a), 2, 2) # acts[a].nums[1]

\* C9: all stepped reports of a move carry the same (dx, dy) sub-step, and
\* the |dx| and |dy| of each sub-step are at most the 50-unit step limit.
C9_StepLimit ==
    \A a \in MoveActs :
        LET l == LogOf(a)
            n == StepCount(acts[a].nums[1], acts[a].nums[2])
        IN  \A j \in 1..Min2(Len(l), n) :
                /\ l[j].data = l[1].data
                /\ Abs(Signed8(l[j].data[2])) <= 50
                /\ Abs(Signed8(l[j].data[3])) <= 50

\* C10: scroll(amount) emits |amount| mouse reports 50 ms apart, each with
\* buttons, dx and dy zero and the wheel one unit in the direction of
\* amount, and then one all-zero mouse report |amount| * 50 ms after
\* dispatch; what has not fired yet is pending for its time.  For amount 0
\* the zero report is the only emission.
C10_Scroll ==
    \A a \in ScrollActs :
        LET amount == acts[a].nums[1]
            n == Abs(amount)
            l == LogOf(a)
            p == PendingOf(a)
            t0 == acts[a].t0
        IN  /\ Len(l) + Cardinality(p) = n + 1
            /\ \A j \in 1..Len(l) :
                  /\ l[j].chrc = "mouse"
                  /\ l[j].t = t0 + (j - 1) * 50
                  /\ j > 1 => l[j].t > l[j - 1].t
                  /\ Len(l[j].data) = 4
                  /\ \A k \in 1..3 : l[j].data[k] = 0
                  /\ j <= n => Signed8(l[j].data[4]) =
                                   (IF amount > 0 THEN 1 ELSE -1)
                  /\ j = n + 1 => l[j].data = ZeroMouse
            /\ \A j \in (Len(l) + 1)..(n + 1) :
                  \E tm \in p :
                      /\ tm.due = t0 + (j - 1) * 50
                      /\ tm.cb.chrc = "mouse"
                      /\ j = n + 1 => tm.cb.data = ZeroMouse

\* a scroll down by three units has emitted everything
C10_Witness ==
    \E a \in ScrollActs :
        /\ acts[a].nums[1] = -3
        /\ PendingOf(a) = {}
        /\ Len(LogOf(a)) = 4
        /\ LogOf(a)[3].data = <<0, 0, 0, 255>>
        /\ LogOf(a)[4].t = acts[a].t0 + 150

-----------------------------------------------------------------------------
(* C1 *)

\* a line of LiveLines attaches at most 2 sources, its callbacks' sources
\* included
SourceIds == 1..(2 * MaxReads)

IsPending(id) == \E tm \in timers : tm.id = id

\* the step fires source tm: it was ready, it leaves the pending set, and a
\* report source emits its payload on its characteristic
Fires(tm) ==
    /\ running
    /\ tm.due <= now
    /\ tm \notin timers'
    /\ tm.cb.fn = "send_report" =>
          log' = Append(log, [t |-> now, chrc |-> tm.cb.chrc,
                              data |-> tm.cb.data, act |-> tm.act,
                              src |-> tm.id,
                              notifying |-> notifying[tm.cb.chrc]])
    /\ tm.cb.fn = "send_key" =>
          \A tn \in timers' \ timers : tn.act = tm.act

\* C1 as claimed: no step aborts a queued emission; in every step each
\* pending source either fires or stays pending in a loop that still runs,
\* whatever command is dispatched, quit included.
C1_NoAbort ==
    [][\A tm \in timers : Fires(tm) \/ (tm \in timers' /\ running')]_vars

\* C1, amended: a queued emission leaves the pending set only by firing on
\* its target characteristic, and it eventually fires unless the main loop
\* is stopped; the step that stops the loop emits nothing and leaves the
\* emissions that are still queued unfired.
C1_FiresUnlessQuit ==
    /\ [](\A tm \in timers : tm.id \in SourceIds)
    /\ [][\A tm \in timers : Fires(tm) \/ tm \in timers']_vars
    /\ [][running /\ ~running' =>
            UNCHANGED <<kb_value, mouse_value, timers, log>>]_vars
    /\ \A id \in SourceIds : IsPending(id) ~> (~IsPending(id) \/ ~running)

\* an emission queued by one action has fired after a later command was
\* dispatched while it was pending
C1_Witness ==
    \E i \in 1..Len(log) :
        /\ log[i].src # 0
        /\ \E a \in Acts : /\ a > log[i].act
                           /\ acts[a].t0 <= log[i].t
                           /\ \E j \in 1..(i - 1) : log[j].act = a

-----------------------------------------------------------------------------
(* C11: last write wins on every value buffer *)

\* the payload of the last signal emitted on a report characteristic
LastOn(chrc, init) ==
    LET idx == {i \in 1..Len(log) : log[i].chrc = chrc}
    IN  IF idx = {} THEN init
        ELSE log[CHOOSE i \in idx : \A j \in idx : j <= i].data

\* the actions that still have an emission pending on a characteristic
InFlight(chrc) ==
    {tm.act : tm \in {t \in timers : t.cb.chrc = chrc}}

\* C11: the emissions of the actions in flight on one report characteristic
\* are applied whole and in the order of their fire times, and every value
\* buffer holds the payload of the last emission on its characteristic, or
\* of the last write to it, or else its initial value.
C11_LastWriteWins ==
    /\ kb_value = LastOn("kb", ZeroKb)
    /\ mouse_value = LastOn("mouse", ZeroMouse)
    /\ \A i \in 1..(Len(log) - 1) : log[i].t <= log[i + 1].t
    /\ \A p \in DOMAIN value :
          value[p] = IF p \in DOMAIN last_write THEN last_write[p]
                     ELSE InitialValue[p]

\* witness of C11: two actions are in flight on the mouse report, the later
\* one has overwritten the buffer, and the LED report has been written
C11_Witness ==
    /\ \E a \in InFlight("mouse"), b \in InFlight("mouse") :
          /\ a < b
          /\ \E i \in 1..Len(log) : log[i].act = a
          /\ log[Len(log)].act = b
    /\ led_report.path \in DOMAIN last_write

-----------------------------------------------------------------------------
(* C12, C13: lines the dispatcher does not serve *)

\* the command words handle_command knows
Commands == {CMD_send_key, CMD_send_string, CMD_send_hid, CMD_click, CMD_move,
             CMD_scroll, CMD_quit, CMD_exit, CMD_q, CMD_help}

UnknownLines == {parts \in Lines : parts # <<>> /\ parts[1] \notin Commands}

\* C12: reading a line with an unrecognized command word changes no value
\* buffer, attaches or removes no emission, emits nothing, prints the
\* hint naming the word, and leaves the loop running with the stdin watch
\* attached.
C12_UnknownIgnored ==
    [][\A parts \in UnknownLines :
          WatchStdinLine(parts) =>
              /\ UNCHANGED <<kb_value, mouse_value, value, timers, log, acts>>
              /\ stdout' = <<"Unknown", parts[1]>>
              /\ running'
              /\ watching'
              /\ exit_status' = -1]_vars

\* witness of C12: an unrecognized command was read while an emission was
\* pending and a buffer was not zero; the watch is still attached
C12_Witness ==
    /\ stdout = <<"Unknown", <<"f", "o", "o">>>>
    /\ timers # {}
    /\ (kb_value # ZeroKb \/ mouse_value # ZeroMouse)
    /\ running
    /\ watching

\* recognized commands with too few arguments or a non-integer argument
MalformedLines == {<<CMD_scroll>>, <<CMD_scroll, <<"x">>>>}

\* C13: reading a recognized command with malformed arguments prints a
\* hint, changes no value buffer, attaches or emits nothing, and leaves the
\* loop running with the stdin watch attached.
C13_MalformedRecovered ==
    [][\A parts \in MalformedLines \cap Lines :
          WatchStdinLine(parts) =>
              /\ UNCHANGED <<kb_value, mouse_value, value, timers, log, acts>>
              /\ stdout' # <<>>
              /\ running'
              /\ watching']_vars

-----------------------------------------------------------------------------
(* C14, C15: how the process ends *)

\* a registration failed at startup
RegistrationFailed ==
    \/ adapter_path = "none"
    \/ app_reg = "error"
    \/ adv_reg = "error"

\* C14: once the adapter lookup, the application registration or the
\* advertisement registration has failed, the process has stopped and its
\* exit status is not zero.
C14_FailureFatal ==
    RegistrationFailed => (~running /\ exit_status > 0)

QuitLines == {<<CMD_quit>>, <<CMD_exit>>, <<CMD_q>>}

\* C15: reading a quit command stops the main loop, and once stdin has
\* reached end of input the main loop eventually stops.
C15_Terminates ==
    /\ [][\A parts \in QuitLines : WatchStdinLine(parts) => ~running']_vars
    /\ (eof /\ pc = "run") ~> ~running

-----------------------------------------------------------------------------
(* C16, C17, C18: what GetManagedObjects returns *)

GATT_SERVICE_IFACE == "org.bluez.GattService1"

GATT_CHRC_IFACE == "org.bluez.GattCharacteristic1"

GATT_DESC_IFACE == "org.bluez.GattDescriptor1"

\* the objects attached to the tree, by their position in the lists
Positions ==
    LET S == 1..Len(services)
        C(i) == 1..Len(services[i].characteristics)
        D(i, j) == 1..Len(services[i].characteristics[j].descriptors)
    IN  {<<i>> : i \in S}
        \cup UNION {{<<i, j>> : j \in C(i)} : i \in S}
        \cup UNION {UNION {{<<i, j, k>> : k \in D(i, j)} : j \in C(i)} : i \in S}

ObjectAt(pos) ==
    IF Len(pos) = 1 THEN services[pos[1]]
    ELSE IF Len(pos) = 2 THEN services[pos[1]].characteristics[pos[2]]
    ELSE services[pos[1]].characteristics[pos[2]].descriptors[pos[3]]

\* the entries of the response that have a given interface
EntriesOf(iface) ==
    {i \in 1..Len(response) : response[i].ifaces.iface = iface}

\* the path one level up
Parent(path) == SubSeq(path, 1, Len(path) - 2)

\* C16: the response of GetManagedObjects has exactly one entry for every
\* attached service, characteristic and descriptor and no other, all paths
\* are distinct, every characteristic entry is the child of exactly one
\* service entry and every descriptor entry of exactly one characteristic
\* entry.
C16_OneEntryEach ==
    response # <<>> =>
        /\ Len(response) = Cardinality(Positions)
        /\ \A pos \in Positions :
              Cardinality({i \in 1..Len(response) :
                              response[i].path = ObjectAt(pos).path}) = 1
        /\ \A i, j \in 1..Len(response) :
              i # j => response[i].path # response[j].path
        /\ \A i \in EntriesOf(GATT_CHRC_IFACE) :
              /\ Cardinality({k \in EntriesOf(GATT_SERVICE_IFACE) :
                    response[k].path = Parent(response[i].path)}) = 1
              /\ response[i].ifaces.props.Service = Parent(response[i].path)
        /\ \A i \in EntriesOf(GATT_DESC_IFACE) :
              /\ Cardinality({k \in EntriesOf(GATT_CHRC_IFACE) :
                    response[k].path = Parent(response[i].path)}) = 1
              /\ response[i].ifaces.props.Characteristic =
                    Parent(response[i].path)

\* witness of C16: GetManagedObjects has answered with the three services,
\* their ten characteristics and the three report reference descriptors
C16_Witness ==
    /\ Cardinality(EntriesOf(GATT_SERVICE_IFACE)) = 3
    /\ Cardinality(EntriesOf(GATT_CHRC_IFACE)) = 10
    /\ Cardinality(EntriesOf(GATT_DESC_IFACE)) = 3

\* the value a characteristic or descriptor was constructed with
ConstructedValue(path) ==
    IF path = kb_report.path THEN ZeroKb
    ELSE IF path = mouse_report.path THEN ZeroMouse
    ELSE InitialValue[path]

\* an entry of the response that belongs to a characteristic or descriptor
IsAttribute(e) == e.ifaces.iface \in {GATT_CHRC_IFACE, GATT_DESC_IFACE}

\* C17 as stated: when GetManagedObjects answers, the property map of
\* every characteristic and descriptor whose value was changed since
\* construction, by WriteValue or by a report emission, shows that value.
C17_LiveValues ==
    [][response' # response =>
          \A i \in 1..Len(response') :
              LET e == response'[i]
              IN  (IsAttribute(e) /\ LiveValue(e.path) # ConstructedValue(e.path))
                  => /\ "Value" \in DOMAIN e.ifaces.props
                     /\ e.ifaces.props.Value = LiveValue(e.path)]_vars

\* C17, amended: when GetManagedObjects answers it lists every
\* characteristic and descriptor with its UUID, flags, parent and children,
\* and no property map carries a value, whatever was written or emitted
\* before the call.
C17_StructureOnly ==
    [][response' # response =>
          /\ \A c \in Characteristics \cup Descriptors :
                \E i \in 1..Len(response') : response'[i].path = c.path
          /\ \A i \in 1..Len(response') :
                LET e == response'[i]
                IN  IsAttribute(e) =>
                      /\ DOMAIN e.ifaces.props \subseteq
                            {"Service", "Characteristic", "UUID", "Flags",
                             "Descriptors"}
                      /\ {"UUID", "Flags"} \subseteq DOMAIN e.ifaces.props]_vars

\* witness of C17: GetManagedObjects answered after a remote write and a
\* report emission had changed the LED and the mouse report values
C17_Witness ==
    /\ response # <<>>
    /\ seen[1] > 0
    /\ seen[2] > 0
    /\ value[led_report.path] # InitialValue[led_report.path]

\* the characteristic entries of the HID service, in the order of the response
HidEntries ==
    SelectSeq(response,
        LAMBDA e : /\ e.ifaces.iface = GATT_CHRC_IFACE
                   /\ e.ifaces.props.Service = <<"service", 0>>)

\* the HID service lists its characteristics char0..char6 with these
\* UUIDs, and the three reports are bound to (1, Input), (2, Input),
\* (1, Output)
HidOrder(uuids) ==
    /\ Len(HidEntries) = 7
    /\ \A i \in 1..7 :
          /\ HidEntries[i].path = <<"service", 0, "char", i - 1>>
          /\ HidEntries[i].ifaces.props.UUID = uuids[i]
    /\ \E k \in EntriesOf(GATT_SERVICE_IFACE) :
          /\ response[k].path = <<"service", 0>>
          /\ response[k].ifaces.props.Characteristics =
                [i \in 1..7 |-> <<"service", 0, "char", i - 1>>]
    /\ LiveValue(<<"service", 0, "char", 4, "desc", 0>>) = <<1, 1>>
    /\ LiveValue(<<"service", 0, "char", 5, "desc", 0>>) = <<2, 1>>
    /\ LiveValue(<<"service", 0, "char", 6, "desc", 0>>) = <<1, 2>>

UUID_PROTOCOL_MODE == "00002a4e-0000-1000-8000-00805f9b34fb"

UUID_HID_INFO == "00002a4a-0000-1000-8000-00805f9b34fb"

UUID_REPORT_MAP == "00002a4b-0000-1000-8000-00805f9b34fb"

UUID_CONTROL_POINT == "00002a4c-0000-1000-8000-00805f9b34fb"

UUID_REPORT == "00002a4d-0000-1000-8000-00805f9b34fb"

\* C18 as stated: the HID service's characteristics are indexed and listed
\* in the order Protocol Mode, HID Information, Report Map, HID Control
\* Point, Keyboard Report, Mouse Report, LED Output Report.
C18_MapBeforeControlPoint ==
    response # <<>> =>
        HidOrder(<<UUID_PROTOCOL_MODE, UUID_HID_INFO, UUID_REPORT_MAP,
                   UUID_CONTROL_POINT, UUID_REPORT, UUID_REPORT, UUID_REPORT>>)

\* C18, amended: the order is Protocol Mode, HID Information, HID Control
\* Point, Report Map, Keyboard Report, Mouse Report, LED Output Report.
C18_ControlPointBeforeMap ==
    response # <<>> =>
        HidOrder(<<UUID_PROTOCOL_MODE, UUID_HID_INFO, UUID_CONTROL_POINT,
                   UUID_REPORT_MAP, UUID_REPORT, UUID_REPORT, UUID_REPORT>>)

\* witness of C18: the response lists the seven characteristics of the HID
\* service
C18_Witness == response # <<>> /\ Len(HidEntries) = 7

-----------------------------------------------------------------------------
(* C20: the lengths of the report buffers *)

\* C20: the keyboard report buffer has 8 bytes, the mouse report buffer 4
\* and the LED output report buffer 1, in every reachable state.
C20_FixedLength ==
    /\ Len(kb_value) = 8
    /\ Len(mouse_value) = 4
    /\ Len(value[led_report.path]) = 1

-----------------------------------------------------------------------------
(* C19: the keyboard report of a character, read back *)

LEFT_SHIFT == 2

\* the characters of CHAR_TO_KEYCODE that sit on a key usage
ReverseLookup(keycode) ==
    {b \in CharKeys : CHAR_TO_KEYCODE(b)[2] = keycode}

\* the supported alphabet and the key each of its characters sits on
Alphabet == CharKeys \cup ShiftKeys

Shifted(c) == c \in ShiftKeys

BaseKey(c) == IF Shifted(c) THEN SHIFT_CHARS(c) ELSE c

\* C19: for a character of the alphabet the report sent by send_key has
\* the shift modifier exactly when the character is a shifted form, all
\* other bytes but the first key slot zero, and the usage in the key slot
\* belongs to exactly one unshifted character, the base key of the
\* character; for any other symbol send_key prints Unknown, sends no
\* report, attaches no source and leaves the buffer as it was.
C19_RoundTrip ==
    \A a \in Acts :
        acts[a].cmd = "send_key" =>
            LET char == acts[a].sym
            IN  IF Len(char) = 1 /\ char[1] \in Alphabet
                THEN /\ Len(LogOf(a)) >= 1
                     /\ LET r == LogOf(a)[1].data
                        IN  /\ Len(r) = 8
                            /\ r[1] = (IF Shifted(char[1]) THEN LEFT_SHIFT
                                       ELSE 0)
                            /\ \A i \in {2, 4, 5, 6, 7, 8} : r[i] = 0
                            /\ ReverseLookup(r[3]) = {BaseKey(char[1])}
                ELSE /\ LogOf(a) = <<>>
                     /\ PendingOf(a) = {}
                     /\ kb_value = ZeroKb
                     /\ stdout = <<"Unknown character">>

\* witness of C19: the question mark is down as shift plus the slash key
C19_Witness ==
    /\ acts # <<>>
    /\ acts[1].sym = <<"?">>
    /\ kb_value = <<2, 0, 56, 0, 0, 0, 0, 0>>

-----------------------------------------------------------------------------
(* C21: emission does not depend on the subscription *)

\* the value buffer of a report characteristic
BufferOf(chrc) == IF chrc = "kb" THEN kb_value ELSE mouse_value

\* the step emits one signal on chrc with the payload data
Emits(chrc, data) ==
    /\ Len(log') = Len(log) + 1
    /\ SubSeq(log', 1, Len(log)) = log
    /\ log'[Len(log')].chrc = chrc
    /\ log'[Len(log')].data = data
    /\ log'[Len(log')].t = now
    /\ BufferOf(chrc)' = data

\* C21: every emission on a report characteristic, made at dispatch or by a
\* timeout source, replaces the value buffer by its payload and emits
\* exactly one PropertiesChanged signal with that payload, whether the
\* notifying flag is set or not; StartNotify sets the flag, StopNotify
\* clears it, and neither changes a value buffer, the pending sources or the
\* signals emitted.
C21_EmitRegardless ==
    /\ [][\A tm \in timers :
            (FireTimer(tm) /\ tm.cb.fn = "send_report") =>
                Emits(tm.cb.chrc, tm.cb.data)]_vars
    /\ [][(\E parts \in NotifyLines : WatchStdinLine(parts)) =>
            \/ Emits("kb", PressOf("a")) /\ acts'[Len(acts')].cmd = "send_key"
            \/ Emits("mouse", <<1, 0, 0, 0>>) /\ acts'[Len(acts')].cmd = "click"]_vars
    /\ [][\A chrc \in ReportChrcs :
            StartNotify(chrc) =>
                /\ notifying' = [notifying EXCEPT ![chrc] = TRUE]
                /\ UNCHANGED <<kb_value, mouse_value, value, timers, log>>]_vars
    /\ [][\A chrc \in ReportChrcs :
            StopNotify(chrc) =>
                /\ notifying' = [notifying EXCEPT ![chrc] = FALSE]
                /\ UNCHANGED <<kb_value, mouse_value, value, timers, log>>]_vars

\* witness of C21: the mouse report was emitted once while the remote side
\* was subscribed and once while it was not, and the subscription was
\* dropped while an emission was pending
C21_Witness ==
    /\ \E i, j \in 1..Len(log) :
          /\ log[i].chrc = "mouse" /\ log[i].notifying
          /\ log[j].chrc = "mouse" /\ ~log[j].notifying
    /\ stdout = <<"notifications OFF">>
    /\ timers # {}

-----------------------------------------------------------------------------
(* C22: the command line *)

\* the action named on the command line has been performed: it is the
\* first call made, and it has queued or emitted its reports
Performed ==
    /\ acts # <<>>
    /\ acts[1].cmd = handle_command(argv).call.cmd
    /\ acts[1].sym = handle_command(argv).call.sym
    /\ acts[1].nums = handle_command(argv).call.nums
    /\ acts[1].t0 > 0

\* C22: started with one action on the command line, and once both
\* registrations are accepted, the program performs that action after a
\* startup delay and then exits; started with no arguments it runs the
\* interactive server, which leaves the main loop only when a line is read
\* or a registration is rejected.
C22_OneShot ==
    /\ \A args \in Argvs \ {<<>>} :
          (argv = args /\ app_reg = "ok" /\ adv_reg = "ok")
              ~> (Performed /\ pc = "exit")
    /\ [][(argv = <<>> /\ pc = "run" /\ pc' # "run") =>
            \/ nreads' = nreads + 1
            \/ app_reg' = "error"
            \/ adv_reg' = "error"]_vars

-----------------------------------------------------------------------------
(* C23: keyboard actions write the keyboard report, mouse actions the      *)
(* mouse report                                                            *)

KeyboardCmds == {"send_key", "send_hid", "send_string"}

MouseCmds == {"click", "move", "scroll"}

\* the report characteristic the actions of a command write
TargetOf(cmd) == IF cmd \in KeyboardCmds THEN "kb" ELSE "mouse"

\* the step leaves every value alone but the buffer of chrc
OnlyWrites(chrc) ==
    /\ UNCHANGED value
    /\ chrc = "kb" => UNCHANGED mouse_value
    /\ chrc = "mouse" => UNCHANGED kb_value
    /\ \A i \in (Len(log) + 1)..Len(log') : log'[i].chrc = chrc

\* C23: every signal emitted and every source queued by a keyboard action
\* (send_key, send_hid, send_string) is on the keyboard report and by a
\* mouse action (click, move, scroll) on the mouse report; the step that
\* dispatches an action and the step that fires one of its sources leave
\* the other report's buffer and the value of every other characteristic,
\* the LED output report included, unchanged.
C23_Frame ==
    /\ [](\A i \in 1..Len(log) :
            log[i].chrc = TargetOf(acts[log[i].act].cmd))
    /\ [](\A tm \in timers : tm.cb.chrc = TargetOf(acts[tm.act].cmd))
    /\ [][\A tm \in timers \ timers' :
            OnlyWrites(TargetOf(acts[tm.act].cmd))]_vars
    /\ [][acts' # acts => OnlyWrites(TargetOf(acts'[Len(acts')].cmd))]_vars

\* witness of C23: a key was released by its timeout source while the mouse
\* button was down, the two reports having the same UUID, and the mouse
\* report still shows the button
C23_Witness ==
    /\ kb_report.uuid = mouse_report.uuid
    /\ log # <<>>
    /\ log[Len(log)].chrc = "kb"
    /\ log[Len(log)].src # 0
    /\ kb_value = ZeroKb
    /\ mouse_value = <<1, 0, 0, 0>>

-----------------------------------------------------------------------------
(* C24: the timeout sources are one-shot *)

\* the signals a source has emitted
EmittedBy(id) == {i \in 1..Len(log) : log[i].src = id}

\* C24: a timeout source fires at most once and is removed when it fires:
\* it emits at most one signal, its id is not given again, and no signal
\* comes from a source that is still pending; a source is attached only by
\* the step that dispatches a command or that fires a key action of
\* send_string; and in the end, when no more commands are read, no source
\* is pending in a running loop.
C24_OneShot ==
    /\ [](\A tm \in timers : tm.id < nextId /\ EmittedBy(tm.id) = {})
    /\ [](\A i, j \in 1..Len(log) :
            (log[i].src # 0 /\ log[i].src = log[j].src) => i = j)
    /\ [][\A tm \in timers : FireTimer(tm) => tm \notin timers']_vars
    /\ [][\A tm \in timers' \ timers :
            /\ tm.id >= nextId
            /\ \/ nreads' = nreads + 1
               \/ \E key \in timers \ timers' :
                     key.cb.fn = "send_key" /\ key.act = tm.act]_vars
    /\ <>[](timers = {} \/ ~running)

\* witness of C24: two actions, one of them a send_string, have emitted
\* everything they queued, and nothing is pending in the running loop
C24_Witness ==
    /\ running
    /\ timers = {}
    /\ Len(acts) >= 2
    /\ \E a \in StringActs : Len(LogOf(a)) = 2
    /\ \E i \in 1..Len(log) : log[i].src # 0

-----------------------------------------------------------------------------
(* C25: quiescence *)

\* C25: whenever no timeout source is pending and the main loop runs, the
\* keyboard report buffer and the mouse report buffer are all zero, and
\* the last signal emitted on either characteristic carried a zero report.
C25_Quiescence ==
    (running /\ timers = {}) =>
        /\ kb_value = ZeroKb
        /\ mouse_value = ZeroMouse
        /\ LastOn("kb", ZeroKb) = ZeroKb
        /\ LastOn("mouse", ZeroMouse) = ZeroMouse

\* witness of C25: two actions on the same characteristic have emitted
\* their reports interleaved, among them a report that is not zero, and
\* nothing is pending in the running loop
C25_Witness ==
    /\ running
    /\ timers = {}
    /\ \E a, b \in Acts :
          /\ a < b
          /\ TargetOf(acts[a].cmd) = TargetOf(acts[b].cmd)
          /\ \E i, j, k \in 1..Len(log) :
                /\ i < j /\ j < k
                /\ log[i].act = a /\ log[j].act = b /\ log[k].act = a
                /\ log[j].data \notin {ZeroKb, ZeroMouse}

-----------------------------------------------------------------------------
(* C26: the keyboard reports of one send_string *)

\* the signals emitted on the keyboard report
KbLog == SelectSeq(log, LAMBDA e : e.chrc = "kb")

\* no other keyboard action is in flight with action a: none has a source
\* pending, and none has emitted since a emitted first
Alone(a) ==
    /\ \A tm \in timers : tm.cb.chrc = "kb" => tm.act = a
    /\ \A i, j \in 1..Len(log) :
          (i < j /\ log[i].act = a /\ log[j].chrc = "kb") => log[j].act = a

\* C26: the keyboard signals of a send_string that runs alone alternate
\* active report, zero report: each zero report comes 80 ms after its
\* active report and strictly before the next active report; they are the
\* last signals on the keyboard report, the signal before them, if any, was
\* a zero report, and after each zero report the buffer is zero.
C26_Alternate ==
    \A a \in StringActs :
        Alone(a) =>
            LET l == LogOf(a)
                k == KbLog
            IN  /\ \A j \in 1..Len(l) :
                      IF j % 2 = 1
                      THEN /\ l[j].data # ZeroKb
                           /\ j > 1 => l[j].t > l[j - 1].t
                      ELSE /\ l[j].data = ZeroKb
                           /\ l[j].t = l[j - 1].t + 80
                /\ SubSeq(k, Len(k) - Len(l) + 1, Len(k)) = l
                /\ (Len(l) > 0 /\ Len(k) > Len(l)) =>
                      k[Len(k) - Len(l)].data = ZeroKb
                /\ Len(l) % 2 = 0 => kb_value = ZeroKb

\* witness of C26: after a key action had finished, send_string("hi") ran
\* alone and has emitted press, release, press, release
C26_Witness ==
    \E a \in StringActs :
        /\ acts[a].sym = <<"h", "i">>
        /\ Alone(a)
        /\ Len(LogOf(a)) = 4
        /\ Len(KbLog) > 4
        /\ LogOf(a)[2].t < LogOf(a)[3].t

-----------------------------------------------------------------------------
(* C27: what parse_caption returns *)

\* the tokens of the caption
Tokens == Parts(caption)

\* the tokens a result holds: label, value, traits, role
TokensOf(r) ==
    <<r.label>> \o (IF r.value.some THEN <<r.value.tok>> ELSE <<>>)
        \o r.traits \o (IF r.role # <<>> THEN <<r.role>> ELSE <<>>)

\* C27: for an empty caption parse_caption returns an empty label and
\* role, no value and no traits; otherwise the label is the first token,
\* the role is the last token when that is not the first and is in the
\* role vocabulary and else empty, the first token between label and role
\* is the value and the rest of them are the traits, and label, value,
\* traits and role are, in this order, all the tokens of the caption.
C27_ParseCaption ==
    parsed # <<>> =>
        LET r == parsed[1]
            n == Len(Tokens)
        IN  IF caption = <<>>
            THEN r = [label |-> <<>>, role |-> <<>>, value |-> None,
                      traits |-> <<>>]
            ELSE /\ r.label = Tokens[1]
                 /\ r.role = (IF n >= 2 /\ Tokens[n] \in roles THEN Tokens[n]
                              ELSE <<>>)
                 /\ LET middle == SubSeq(Tokens, 2,
                                       IF r.role # <<>> THEN n - 1 ELSE n)
                    IN  /\ r.value = (IF middle # <<>> THEN Some(middle[1])
                                      ELSE None)
                        /\ r.traits = (IF middle # <<>> THEN Tail(middle)
                                       ELSE <<>>)
                 /\ TokensOf(r) = Tokens

====
